---- MODULE Spec2Model ----
(***************************************************************************)
(* A model of the ucosiii-rs kernel: the priority bitmap, the per-priority *)
(* ready lists, the tick wheel, the task life cycle, the counting          *)
(* semaphore and the priority-inheritance mutex.  The intrusive lists are  *)
(* modelled at the level of their head/tail/next/prev pointers, because    *)
(* several kernel paths call a list operation on a TCB that is not linked  *)
(* in that list, and what happens then is decided by the pointers.         *)
(***************************************************************************)
EXTENDS Integers, FiniteSets, Sequences, TLC

VARIABLES
    tcb,        \* [TCBs -> OsTcb]                       task/tcb.rs
    prio_tbl,   \* PrioTable: the words of the bitmap           prio.rs
    rdy_list,   \* [Prios -> [head, tail]]               SchedState.rdy_list
    tick_wheel, \* [0..CFG_TICK_WHEEL_SIZE-1 -> head]    SchedState.tick_wheel
    cpu,        \* CpuState: tcb_cur, tcb_high_rdy, prio_cur, prio_high_rdy; and
                \* primask: TRUE while the processor masks interrupts
    kf,         \* KernelFlags; and in_critical: the IN_CRITICAL flag of critical.rs;
                \* panicked: TRUE once the kernel's code has panicked
    sem,        \* [Sems -> OsSem]
    mutex,      \* [Mutexes -> OsMutex]
    pc,         \* [TCBs -> position of the task's code]
    ret,        \* the call of the last step: its caller (NULL: main or an interrupt
                \* handler), name, object, option, and the result of a pend that returned
                \* ("none": a pend that blocked, or a call whose result is not kept)
    created,    \* the TCBs os_task_create has been called on
    hist        \* history variables: dly_due[t], pend_due[t]: the timer of t's
                \* time_delay / timed sem.pend, while nothing else has acted on t;
                \* waitq[o]: the waiters of o in the order they began to wait;
                \* ticks: the number of ticks handled one at a time;
                \* deleted: the tasks task_delete has succeeded on;
                \* susp[t]: the task_suspend calls on t that no task_resume has
                \* matched yet;
                \* stage[t]: the place of t in the task function of
                \* examples/priority_inversion.rs: the call it makes next;
                \* guards[t]: the CriticalSection guards the code of t holds;
                \* produced, consumed: the counters PRODUCED and CONSUMED of
                \* examples/producer_consumer.rs

vars == <<tcb, prio_tbl, rdy_list, tick_wheel, cpu, kf, sem, mutex, pc, ret, created, hist>>

----------------------------------------------------------------------------
(* Program constants *)

CFG_PRIO_MAX == 64
CFG_TICK_WHEEL_SIZE == 16
CFG_TIME_QUANTA_DEFAULT == 10
CFG_PRIO_IDLE == CFG_PRIO_MAX - 1
OsNestingCtr_MAX == 255
\* u32::MAX in the code.  The largest integer of TLC, 2^31 - 1, stands for it:
\* the code compares a count with MAX, adds one below MAX and subtracts one
\* above zero, and does nothing else with it.
OsSemCtr_MAX == 2147483647

(* Bounds of the model *)

MaxTick == 2        \* the tick handler runs at most this many times
MaxSemCount == 1    \* a semaphore is posted up to this count
MaxNesting == 2     \* a mutex is taken recursively up to this depth
MaxSuspend == 2     \* task_suspend nests up to this depth
MaxLock == 2        \* sched_lock nests up to this depth
MaxBeforeWrap == 3 \* the ticks left before the tick counter wraps when the tasks begin to delay
MaxWrapTicks == 7 \* the ticks handled around the wrap of the tick counter
WrapDelays == {1, 5}
MaxPcTicks == 41
MaxSetCount == 2
MaxSliceTicks == 11
SliceDly == 2 \* the ticks of a run of the producer and the consumer: two delays of the producer and one more
MaxGuards == 2 \* the critical sections a task is inside, one within the other
MaxRobinTicks == 61 \* the ticks of a run of tasks that share a priority: two rounds of three quanta and one more
MaxLockTicks == 11  \* the ticks of a run with the scheduler lock: one time quantum and one more
MaxRunTicks == 8    \* the ticks of a run of examples/priority_inversion.rs

NULL == "NULL"
IdleTcb == "Idle"
AppTasks == {"A", "B", "C"}
TCBs == AppTasks \cup {IdleTcb}
AppPrios == {1, 2, 3, 5, 10, 15}
\* The ready lists of the priorities no task of the model is created with are
\* never touched; only the others are kept.
Prios == AppPrios \cup {CFG_PRIO_IDLE}
Sems == {"S1"}
Mutexes == {"M1", "M2"}
Delays == {1, 2}
Timeouts == {0, 1}

PEND_NON_BLOCKING == "PEND_NON_BLOCKING"
POST_NO_SCHED == "POST_NO_SCHED"
OPT_NONE == "NONE"

PendStates == {"Pend", "PendTimeout", "PendSuspended", "PendTimeoutSuspended"}
TickStates == {"Delayed", "DelayedSuspended", "PendTimeout", "PendTimeoutSuspended"}

----------------------------------------------------------------------------
(* OsTcb::new *)

OsTcb_new ==
    [ next_ptr |-> NULL, prev_ptr |-> NULL,
      pend_next_ptr |-> NULL, pend_prev_ptr |-> NULL,
      pend_status |-> "Ok",
      tick_next_ptr |-> NULL, tick_prev_ptr |-> NULL,
      tick_remain |-> 0, tick_wheel_slot |-> 0,
      prio |-> 0, base_prio |-> 0,
      task_state |-> "Ready",
      suspend_ctr |-> 0,
      time_quanta |-> 0, time_quanta_ctr |-> 0 ]

ReadyList_new == [head |-> NULL, tail |-> NULL]
PendList_new == [head |-> NULL, tail |-> NULL]

----------------------------------------------------------------------------
(* PrioTable *)

\* The bitmap is an array of PRIO_TBL_SIZE words of 32 bits; a word is written
\* as the set of the positions (0: the least significant) of its bits that are 1
PRIO_TBL_SIZE == (CFG_PRIO_MAX + 31) \div 32

PrioTable_new == [i \in 0..(PRIO_TBL_SIZE - 1) |-> {}]

\* Bit numbering from the least significant bit: not what the code does
PrioTable_insert_lsb(tbl, p) ==
    LET word_idx == p \div 32
        bit_pos == p % 32
    IN [tbl EXCEPT ![word_idx] = @ \cup {bit_pos}]

PrioTable_insert(tbl, p) ==
    LET word_idx == p \div 32
        bit_pos == 31 - (p % 32)
    IN [tbl EXCEPT ![word_idx] = @ \cup {bit_pos}]

PrioTable_remove(tbl, p) ==
    LET word_idx == p \div 32
        bit_pos == 31 - (p % 32)
    IN [tbl EXCEPT ![word_idx] = @ \ {bit_pos}]

PrioTable_is_set(tbl, p) ==
    LET word_idx == p \div 32
        bit_pos == 31 - (p % 32)
    IN bit_pos \in tbl[word_idx]

\* The leading zeros of a word
PrioTable_clz(word) ==
    IF word = {} THEN 32
    ELSE 31 - (CHOOSE b \in word : \A c \in word : c <= b)

RECURSIVE PrioTable_scan(_, _, _)
PrioTable_scan(tbl, i, prio) ==
    IF i = PRIO_TBL_SIZE THEN CFG_PRIO_MAX - 1
    ELSE IF tbl[i] # {} THEN prio + PrioTable_clz(tbl[i])
         ELSE PrioTable_scan(tbl, i + 1, prio + 32)

PrioTable_get_highest(tbl) == PrioTable_scan(tbl, 0, 0)

----------------------------------------------------------------------------
(* ReadyList: the operations act on a state record s with the fields tcb and
   rdy_list (and the rest of the kernel state, left alone). *)

ReadyList_insert_tail(s, p, t) ==
    LET l == s.rdy_list[p]
        t1 == [s.tcb EXCEPT ![t].next_ptr = NULL, ![t].prev_ptr = l.tail]
        t2 == IF l.tail # NULL THEN [t1 EXCEPT ![l.tail].next_ptr = t] ELSE t1
        h  == IF l.tail # NULL THEN l.head ELSE t
    IN [s EXCEPT !.tcb = t2, !.rdy_list[p] = [head |-> h, tail |-> t]]

ReadyList_remove(s, p, t) ==
    LET l == s.rdy_list[p]
        prev == s.tcb[t].prev_ptr
        next == s.tcb[t].next_ptr
        t1 == IF prev # NULL THEN [s.tcb EXCEPT ![prev].next_ptr = next] ELSE s.tcb
        h  == IF prev # NULL THEN l.head ELSE next
        t2 == IF next # NULL THEN [t1 EXCEPT ![next].prev_ptr = prev] ELSE t1
        tl == IF next # NULL THEN l.tail ELSE prev
        t3 == [t2 EXCEPT ![t].prev_ptr = NULL, ![t].next_ptr = NULL]
    IN [s EXCEPT !.tcb = t3, !.rdy_list[p] = [head |-> h, tail |-> tl]]

ReadyList_is_empty(s, p) == s.rdy_list[p].head = NULL

(* sched/mod.rs *)

os_rdy_list_insert(s, t) ==
    LET p == s.tcb[t].prio
        s1 == ReadyList_insert_tail(s, p, t)
    IN [s1 EXCEPT !.prio_tbl = PrioTable_insert(s1.prio_tbl, p)]

os_rdy_list_remove(s, t) ==
    LET p == s.tcb[t].prio
        s1 == ReadyList_remove(s, p, t)
    IN IF ReadyList_is_empty(s1, p)
       THEN [s1 EXCEPT !.prio_tbl = PrioTable_remove(s1.prio_tbl, p)]
       ELSE s1

os_rdy_list_change_prio(s, t, new_prio) ==
    LET old_prio == s.tcb[t].prio
        s1 == ReadyList_remove(s, old_prio, t)
        s2 == IF ReadyList_is_empty(s1, old_prio)
              THEN [s1 EXCEPT !.prio_tbl = PrioTable_remove(s1.prio_tbl, old_prio)]
              ELSE s1
        s3 == [s2 EXCEPT !.tcb[t].prio = new_prio]
        s4 == ReadyList_insert_tail(s3, new_prio, t)
    IN IF old_prio = new_prio THEN s
       ELSE [s4 EXCEPT !.prio_tbl = PrioTable_insert(s4.prio_tbl, new_prio)]

----------------------------------------------------------------------------
(* PendList (sync/sem.rs): the list l is passed and returned beside the TCBs. *)

\* The node before which insert_by_prio stops: the first node from cur on whose
\* prio is numerically larger than p.  n bounds the walk of the model.
RECURSIVE PendList_scan(_, _, _, _, _)
PendList_scan(tcbs, p, prev, cur, n) ==
    IF cur = NULL \/ n = 0 \/ p < tcbs[cur].prio
    THEN [prev |-> prev, current |-> cur]
    ELSE PendList_scan(tcbs, p, cur, tcbs[cur].pend_next_ptr, n - 1)

PendList_insert_by_prio(tcbs, l, t) ==
    LET at == PendList_scan(tcbs, tcbs[t].prio, NULL, l.head, Cardinality(TCBs) + 1)
        prev == at.prev
        current == at.current
        t1 == [tcbs EXCEPT ![t].pend_prev_ptr = prev, ![t].pend_next_ptr = current]
        t2 == IF prev # NULL THEN [t1 EXCEPT ![prev].pend_next_ptr = t] ELSE t1
        h  == IF prev # NULL THEN l.head ELSE t
        t3 == IF current # NULL THEN [t2 EXCEPT ![current].pend_prev_ptr = t] ELSE t2
        tl == IF current # NULL THEN l.tail ELSE t
    IN [tcbs |-> t3, list |-> [head |-> h, tail |-> tl]]

PendList_remove(tcbs, l, t) ==
    LET prev == tcbs[t].pend_prev_ptr
        next == tcbs[t].pend_next_ptr
        t1 == IF prev # NULL THEN [tcbs EXCEPT ![prev].pend_next_ptr = next] ELSE tcbs
        h  == IF prev # NULL THEN l.head ELSE next
        t2 == IF next # NULL THEN [t1 EXCEPT ![next].pend_prev_ptr = prev] ELSE t1
        tl == IF next # NULL THEN l.tail ELSE prev
        t3 == [t2 EXCEPT ![t].pend_prev_ptr = NULL, ![t].pend_next_ptr = NULL]
    IN [tcbs |-> t3, list |-> [head |-> h, tail |-> tl]]

----------------------------------------------------------------------------
(* Tick wheel (kernel.rs) *)

\* An OsTick that counts time (the tick counter, an expiry) is a u32, kept as its
\* two 16-bit halves [hi, lo]: its value is hi * 65536 + lo.
Half == 65536
OsTick_of(n) == [hi |-> (n \div Half) % Half, lo |-> n % Half]
\* u32::wrapping_add of a tick and a number below 2^31
wrapping_add(tick, n) ==
    LET lo == tick.lo + (n % Half)
        hi == tick.hi + (n \div Half) + (lo \div Half)
    IN [hi |-> hi % Half, lo |-> lo % Half]

tick_wheel_slot(tick) == tick.lo % CFG_TICK_WHEEL_SIZE

tick_wheel_insert(s, t, expiry_tick) ==
    LET slot == tick_wheel_slot(expiry_tick)
        old_head == s.tick_wheel[slot]
        t1 == [s.tcb EXCEPT ![t].tick_wheel_slot = slot,
                            ![t].tick_next_ptr = old_head,
                            ![t].tick_prev_ptr = NULL]
        t2 == IF old_head # NULL THEN [t1 EXCEPT ![old_head].tick_prev_ptr = t] ELSE t1
    IN [s EXCEPT !.tcb = t2, !.tick_wheel[slot] = t]

tick_wheel_remove(s, t) ==
    LET slot == s.tcb[t].tick_wheel_slot
        prev == s.tcb[t].tick_prev_ptr
        next == s.tcb[t].tick_next_ptr
        t1 == IF prev # NULL THEN [s.tcb EXCEPT ![prev].tick_next_ptr = next] ELSE s.tcb
        w  == IF prev # NULL THEN s.tick_wheel
              ELSE [s.tick_wheel EXCEPT ![slot] = next]
        t2 == IF next # NULL THEN [t1 EXCEPT ![next].tick_prev_ptr = prev] ELSE t1
        t3 == [t2 EXCEPT ![t].tick_next_ptr = NULL, ![t].tick_prev_ptr = NULL]
    IN [s EXCEPT !.tcb = t3, !.tick_wheel = w]

----------------------------------------------------------------------------
(* The kernel state as one record, so that the kernel's functions can be
   written as functions from state to state and composed in program order.
   pendsv is the pending bit of the PendSV exception; isr is IPSR # 0. *)

State ==
    [ tcb |-> tcb, prio_tbl |-> prio_tbl, rdy_list |-> rdy_list,
      tick_wheel |-> tick_wheel, cpu |-> cpu, kf |-> kf,
      sem |-> sem, mutex |-> mutex, pendsv |-> FALSE, isr |-> FALSE,
      overflow_checks |-> FALSE ]

is_isr_context(s) == s.isr

(* port/cortex_m4: os_ctx_sw and os_int_ctx_sw both set the PendSV pending bit *)
os_ctx_sw(s) == [s EXCEPT !.pendsv = TRUE]

(* port/cortex_m4: the PendSV handler, taken as soon as interrupts are enabled
   at task level, or when the interrupt handler returns *)
pendsv_switch_context(c) ==
    [c EXCEPT !.tcb_cur = c.tcb_high_rdy, !.prio_cur = c.prio_high_rdy]

PendSV(s) ==
    IF s.pendsv
    THEN [s EXCEPT !.cpu = pendsv_switch_context(s.cpu), !.pendsv = FALSE]
    ELSE s

(* sched/mod.rs *)
\* critical.rs: CriticalSection::enter and the drop of the guard
CriticalSection_enter(s) == [s EXCEPT !.cpu.primask = TRUE, !.kf.in_critical = TRUE]

CriticalSection_drop(s) == [s EXCEPT !.kf.in_critical = FALSE, !.cpu.primask = FALSE]

os_sched(s) ==
    IF ~s.kf.running \/ is_isr_context(s) \/ s.kf.sched_lock_nesting > 0
    THEN s
    ELSE LET cs == CriticalSection_enter(s)
             high_prio == PrioTable_get_highest(cs.prio_tbl)
             high_rdy == cs.rdy_list[high_prio].head
             s1 == [cs EXCEPT !.cpu.prio_high_rdy = high_prio,
                              !.cpu.tcb_high_rdy = high_rdy]
         IN CriticalSection_drop(
                IF high_rdy = NULL THEN cs
                ELSE IF high_rdy # cs.cpu.tcb_cur THEN os_ctx_sw(s1) ELSE s1)

\* A round-robin that gives the processor to the next task but leaves the
\* ready list as it is: not what the code does
os_sched_round_robin_in_place(s) ==
    LET cur == s.cpu.tcb_cur
        c0 == s.tcb[cur].time_quanta_ctr
        c1 == IF c0 > 0 THEN c0 - 1 ELSE c0
        s1 == [s EXCEPT !.tcb[cur].time_quanta_ctr = c1]
        s2 == [s1 EXCEPT !.tcb[cur].time_quanta_ctr = s1.tcb[cur].time_quanta]
        prio == s2.tcb[cur].prio
        next == IF s2.tcb[cur].next_ptr # NULL THEN s2.tcb[cur].next_ptr
                ELSE s2.rdy_list[prio].head
    IN IF ~s.kf.running \/ s.kf.sched_lock_nesting > 0 \/ s.cpu.tcb_cur = NULL
       THEN s
       ELSE IF c1 # 0 THEN s1
            ELSE IF s2.rdy_list[prio].head # s2.rdy_list[prio].tail
                 THEN os_ctx_sw([s2 EXCEPT !.cpu.tcb_high_rdy = next])
                 ELSE s2

os_sched_round_robin(s) ==
    IF ~s.kf.running \/ s.kf.sched_lock_nesting > 0 \/ s.cpu.tcb_cur = NULL
    THEN s
    ELSE LET cur == s.cpu.tcb_cur
             c0 == s.tcb[cur].time_quanta_ctr
             c1 == IF c0 > 0 THEN c0 - 1 ELSE c0
             s1 == [s EXCEPT !.tcb[cur].time_quanta_ctr = c1]
             s2 == [s1 EXCEPT !.tcb[cur].time_quanta_ctr = s1.tcb[cur].time_quanta]
             prio == s2.tcb[cur].prio
             s3 == ReadyList_insert_tail(ReadyList_remove(s2, prio, cur), prio, cur)
             new_head == s3.rdy_list[prio].head
             s4 == IF new_head # NULL
                   THEN [s3 EXCEPT !.cpu.tcb_high_rdy = new_head] ELSE s3
         IN IF c1 # 0 THEN s1
            ELSE IF s2.rdy_list[prio].head # s2.rdy_list[prio].tail
                 THEN os_ctx_sw(s4)
                 ELSE s2

(* kernel.rs *)
os_int_exit(s) ==
    IF ~s.kf.running \/ s.kf.int_nesting = 0 THEN s
    ELSE LET new_nesting == s.kf.int_nesting - 1
             s1 == [s EXCEPT !.kf.int_nesting = new_nesting]
             high_prio == PrioTable_get_highest(s1.prio_tbl)
             head == s1.rdy_list[high_prio].head
             s2 == [s1 EXCEPT !.cpu.prio_high_rdy = high_prio]
         IN IF new_nesting = 0 /\ s1.kf.sched_lock_nesting = 0
                /\ high_prio < s1.cpu.prio_cur
            THEN IF head # NULL
                 THEN os_ctx_sw([s2 EXCEPT !.cpu.tcb_high_rdy = head])
                 ELSE s2
            ELSE s1

----------------------------------------------------------------------------
(* time/mod.rs: process_delayed_tasks.  The loop over the slot's list, with the
   next pointer read before the node is handled, as the code does.  n bounds
   the walk of the model. *)

process_one(s, t) ==
    IF s.tcb[t].tick_remain <= CFG_TICK_WHEEL_SIZE
    THEN LET s1 == tick_wheel_remove(s, t)
             s2 == [s1 EXCEPT !.tcb[t].tick_remain = 0]
             st == s2.tcb[t].task_state
         IN CASE st = "Delayed" ->
                   os_rdy_list_insert([s2 EXCEPT !.tcb[t].task_state = "Ready"], t)
              [] st = "DelayedSuspended" ->
                   [s2 EXCEPT !.tcb[t].task_state = "Suspended"]
              [] st = "PendTimeout" ->
                   os_rdy_list_insert(
                       [s2 EXCEPT !.tcb[t].task_state = "Ready",
                                  !.tcb[t].pend_status = "Timeout"], t)
              [] OTHER -> s2
    ELSE [s EXCEPT !.tcb[t].tick_remain = @ - CFG_TICK_WHEEL_SIZE]

RECURSIVE process_loop(_, _, _)
process_loop(s, current, n) ==
    IF current = NULL \/ n = 0 THEN s
    ELSE process_loop(process_one(s, current), s.tcb[current].tick_next_ptr, n - 1)

WalkBound == 4 * Cardinality(TCBs)

process_delayed_tasks(s) ==
    process_loop(s, s.tick_wheel[s.kf.tick_counter.lo % CFG_TICK_WHEEL_SIZE], WalkBound)

\* kernel.rs: KernelFlags::tick_increment, "fetch_add(1) + 1": fetch_add wraps;
\* the "+ 1" on the value it returns overflows when that value is u32::MAX, which
\* panics in a build with overflow checks (s.overflow_checks) and wraps in one
\* without
OsTick_MAX == [hi |-> Half - 1, lo |-> Half - 1]

tick_increment(s) ==
    [s EXCEPT !.kf.tick_counter = wrapping_add(@, 1),
              !.kf.panicked = @ \/ (s.overflow_checks /\ s.kf.tick_counter = OsTick_MAX)]

os_tick_handler(s) ==
    LET s0 == [s EXCEPT !.isr = TRUE]
        s1 == [s0 EXCEPT !.kf.int_nesting = IF @ = 254 THEN 254 ELSE (@ + 1) % 256]
        s2 == tick_increment(s1)
        s3 == os_sched_round_robin(process_delayed_tasks(s2))
        s4 == os_int_exit(s3)
    IN IF s2.kf.panicked THEN s2 ELSE [s4 EXCEPT !.isr = FALSE]

----------------------------------------------------------------------------
(* Walks of the intrusive lists, for the properties: the TCBs reached from a
   head by following one link field. *)

RECURSIVE Walk(_, _, _, _)
Walk(f, start, acc, n) ==
    IF start = NULL \/ n = 0 THEN acc
    ELSE Walk(f, f[start], Append(acc, start), n - 1)

Range(q) == {q[i] : i \in DOMAIN q}

RdySeq(p) == Walk([t \in TCBs |-> tcb[t].next_ptr], rdy_list[p].head, <<>>, Cardinality(TCBs) + 1)
RdyMembers(p) == Range(RdySeq(p))
PendSeqOf(l) == Walk([t \in TCBs |-> tcb[t].pend_next_ptr], l.head, <<>>, Cardinality(TCBs) + 1)
TickSeq(slot) == Walk([t \in TCBs |-> tcb[t].tick_next_ptr], tick_wheel[slot], <<>>, Cardinality(TCBs) + 1)
Objs == Sems \cup Mutexes
PendListOf(o) == IF o \in Sems THEN sem[o].pend_list ELSE mutex[o].pend_list
PendSeq(o) == PendSeqOf(PendListOf(o))
PendMembers(o) == Range(PendSeq(o))
InWheel(t) == \E slot \in 0..(CFG_TICK_WHEEL_SIZE - 1) : t \in Range(TickSeq(slot))

----------------------------------------------------------------------------
(* The position of a task in its code, the call of the last step, and the
   history variables. *)

AtRun == [at |-> "run", obj |-> NULL]
\* num: the count inside an Ok(count) of a semaphore call; NoNum, below every
\* count, otherwise
NoNum == 0 - 1
Ret(task, op, obj, opt, val) ==
    [task |-> task, op |-> op, obj |-> obj, opt |-> opt, val |-> val, num |-> NoNum]
NoRet == Ret(NULL, "none", NULL, OPT_NONE, "none")
\* A timer of the history: "none"; "armed" with the ticks left; "expired": the
\* tick handler of the due tick did what is expected; "missed": it did not.
NoDue == [st |-> "none", left |-> 0]
Armed(n) == [st |-> "armed", left |-> n]
Expired == [st |-> "expired", left |-> 0]
Missed == [st |-> "missed", left |-> 0]

SeqWithout(q, t) == SelectSeq(q, LAMBDA x : x # t)

\* The task-level caller: the running task, between two kernel calls.  The idle
\* task calls nothing.
Caller == cpu.tcb_cur
TaskLevel == kf.running /\ ~kf.panicked /\ Caller \in AppTasks /\ pc[Caller] = AtRun

\* The end of an operation: the PendSV exception, if pending, is taken; the
\* variables take the values of the final state.
Commit(s) ==
    LET f == PendSV(s)
    IN /\ tcb' = f.tcb
       /\ prio_tbl' = f.prio_tbl
       /\ rdy_list' = f.rdy_list
       /\ tick_wheel' = f.tick_wheel
       /\ cpu' = f.cpu
       /\ kf' = f.kf
       /\ sem' = f.sem
       /\ mutex' = f.mutex

----------------------------------------------------------------------------
(* kernel.rs: the state os_init leaves *)

Init ==
    LET idle == [OsTcb_new EXCEPT !.prio = CFG_PRIO_IDLE, !.base_prio = CFG_PRIO_IDLE,
                                  !.time_quanta = 0, !.time_quanta_ctr = 0,
                                  !.task_state = "Ready"]
    IN /\ tcb = [t \in TCBs |-> IF t = IdleTcb THEN idle ELSE OsTcb_new]
       /\ prio_tbl = PrioTable_insert(PrioTable_new, CFG_PRIO_IDLE)
       /\ rdy_list = [p \in Prios |-> IF p = CFG_PRIO_IDLE
                                       THEN [head |-> IdleTcb, tail |-> IdleTcb]
                                       ELSE ReadyList_new]
       /\ tick_wheel = [i \in 0..(CFG_TICK_WHEEL_SIZE - 1) |-> NULL]
       /\ cpu = [tcb_cur |-> NULL, tcb_high_rdy |-> NULL, prio_cur |-> 0, prio_high_rdy |-> 0,
              primask |-> FALSE]
       /\ kf = [initialized |-> TRUE, running |-> FALSE, int_nesting |-> 0, in_critical |-> FALSE, panicked |-> FALSE,
                sched_lock_nesting |-> 0, tick_counter |-> OsTick_of(0)]
       /\ sem = [o \in Sems |-> [count |-> 0, pend_list |-> PendList_new]]
       /\ mutex = [o \in Mutexes |-> [owner |-> NULL, nesting_ctr |-> 0, pend_list |-> PendList_new]]
       /\ pc = [t \in TCBs |-> AtRun]
       /\ ret = NoRet
       /\ created = {IdleTcb}
       /\ hist = [dly_due |-> [t \in TCBs |-> NoDue],
                  pend_due |-> [t \in TCBs |-> NoDue],
                  waitq |-> [o \in Objs |-> <<>>],
                  ticks |-> 0,
                  deleted |-> {},
                  susp |-> [t \in TCBs |-> 0],
                  stage |-> [t \in TCBs |-> "start"],
                  guards |-> [t \in TCBs |-> 0],
                  produced |-> 0, consumed |-> 0]

(* kernel.rs: os_start, with the first PendSV taken *)
os_start(s) ==
    LET high_prio == PrioTable_get_highest(s.prio_tbl)
        head == s.rdy_list[high_prio].head
        s1 == [s EXCEPT !.cpu.prio_high_rdy = high_prio, !.cpu.prio_cur = high_prio]
        s2 == [s1 EXCEPT !.cpu.tcb_high_rdy = head, !.cpu.tcb_cur = head,
                         !.kf.running = TRUE]
    IN IF head = NULL THEN s1 ELSE os_ctx_sw(s2)

OsStart ==
    /\ kf.initialized /\ ~kf.running
    /\ Commit(os_start(State))
    /\ ret' = Ret(NULL, "os_start", NULL, OPT_NONE, "none")
    /\ UNCHANGED <<pc, created, hist>>

(* task/mod.rs: os_task_create *)
os_task_create(s, t, prio) ==
    LET new == [OsTcb_new EXCEPT !.prio = prio, !.base_prio = prio,
                                 !.time_quanta = CFG_TIME_QUANTA_DEFAULT,
                                 !.time_quanta_ctr = CFG_TIME_QUANTA_DEFAULT,
                                 !.task_state = "Ready"]
        s1 == [s EXCEPT !.tcb[t] = new]
        s2 == ReadyList_insert_tail(s1, prio, t)
        s3 == [s2 EXCEPT !.prio_tbl = PrioTable_insert(s2.prio_tbl, prio)]
    IN IF s3.kf.running THEN os_sched(s3) ELSE s3

TaskCreate(t, prio) ==
    /\ kf.initialized
    /\ ~kf.running \/ TaskLevel
    /\ t \in AppTasks \ created
    /\ Commit(os_task_create(State, t, prio))
    /\ created' = created \cup {t}
    /\ ret' = Ret(IF kf.running THEN Caller ELSE NULL, "task_create", t, OPT_NONE, "none")
    /\ UNCHANGED <<pc, hist>>

(* task/mod.rs: os_task_del; None (self) is the call with the caller's TCB *)
os_task_del(s, t) ==
    LET prio == s.tcb[t].prio
        s1 == ReadyList_remove(s, prio, t)
        s2 == IF ReadyList_is_empty(s1, prio)
              THEN [s1 EXCEPT !.prio_tbl = PrioTable_remove(s1.prio_tbl, prio)]
              ELSE s1
        s3 == [s2 EXCEPT !.tcb[t].task_state = "Suspended"]
    IN IF prio = CFG_PRIO_IDLE THEN s
       ELSE IF s3.cpu.tcb_cur = t THEN os_sched(s3) ELSE s3

os_task_del_result(s, t) ==
    IF s.tcb[t].prio = CFG_PRIO_IDLE THEN "TaskDelIdle" ELSE "Ok"

os_task_suspend_result(s, t) ==
    IF s.tcb[t].prio = CFG_PRIO_IDLE THEN "TaskSuspendIdle" ELSE "Ok"

Disturb(h, t) == [h EXCEPT !.dly_due[t] = NoDue, !.pend_due[t] = NoDue]

\* A deleted task waits for nothing
Unqueue(h, t) == [h EXCEPT !.waitq = [o \in DOMAIN h.waitq |-> SeqWithout(h.waitq[o], t)]]

TaskDel(t) ==
    /\ TaskLevel
    /\ t \in created
    /\ Commit(os_task_del(State, t))
    /\ ret' = Ret(Caller, "task_del", t, OPT_NONE, os_task_del_result(State, t))
    /\ hist' = IF tcb[t].prio = CFG_PRIO_IDLE THEN hist
               ELSE [Unqueue(Disturb(hist, t), t) EXCEPT !.deleted = @ \cup {t}]
    /\ UNCHANGED <<pc, created>>

(* os_task_suspend with the target taken to be the caller whatever TCB is passed *)
os_task_suspend_cur(s, t) ==
    LET cur == s.cpu.tcb_cur
        prio == s.tcb[cur].prio
        s1 == [s EXCEPT !.tcb[cur].suspend_ctr = IF @ = OsNestingCtr_MAX THEN @ ELSE @ + 1]
        r1 == [s1 EXCEPT !.tcb[cur].task_state = "Suspended"]
        r2 == ReadyList_remove(r1, prio, cur)
        r3 == IF ReadyList_is_empty(r2, prio)
              THEN [r2 EXCEPT !.prio_tbl = PrioTable_remove(r2.prio_tbl, prio)]
              ELSE r2
    IN IF prio = CFG_PRIO_IDLE \/ s.tcb[cur].task_state # "Ready" THEN s ELSE os_sched(r3)

(* task/mod.rs: os_task_suspend *)
os_task_suspend(s, t) ==
    LET prio == s.tcb[t].prio
        st == s.tcb[t].task_state
        s1 == [s EXCEPT !.tcb[t].suspend_ctr = IF @ = OsNestingCtr_MAX THEN @ ELSE @ + 1]
        r1 == [s1 EXCEPT !.tcb[t].task_state = "Suspended"]
        r2 == ReadyList_remove(r1, prio, t)
        r3 == IF ReadyList_is_empty(r2, prio)
              THEN [r2 EXCEPT !.prio_tbl = PrioTable_remove(r2.prio_tbl, prio)]
              ELSE r2
        s2 == CASE st = "Ready" -> r3
                [] st = "Delayed" -> [s1 EXCEPT !.tcb[t].task_state = "DelayedSuspended"]
                [] st = "Pend" -> [s1 EXCEPT !.tcb[t].task_state = "PendSuspended"]
                [] st = "PendTimeout" -> [s1 EXCEPT !.tcb[t].task_state = "PendTimeoutSuspended"]
                [] OTHER -> s1
    IN IF prio = CFG_PRIO_IDLE THEN s
       ELSE IF s2.cpu.tcb_cur = t THEN os_sched(s2) ELSE s2

TaskSuspend(t) ==
    /\ TaskLevel
    /\ t \in created
    /\ tcb[t].suspend_ctr < MaxSuspend
    /\ Commit(os_task_suspend(State, t))
    /\ ret' = Ret(Caller, "task_suspend", t, OPT_NONE, os_task_suspend_result(State, t))
    /\ hist' = IF tcb[t].prio = CFG_PRIO_IDLE THEN hist
               ELSE [Disturb(hist, t) EXCEPT !.susp[t] = @ + 1]
    /\ UNCHANGED <<pc, created>>

(* task/mod.rs: os_task_resume *)
os_task_resume(s, t) ==
    LET st == s.tcb[t].task_state
        prio == s.tcb[t].prio
        s1 == [s EXCEPT !.tcb[t].suspend_ctr = @ - 1]
        r1 == ReadyList_insert_tail([s1 EXCEPT !.tcb[t].task_state = "Ready"], prio, t)
        r2 == [r1 EXCEPT !.prio_tbl = PrioTable_insert(r1.prio_tbl, prio)]
        s2 == CASE st = "Suspended" -> r2
                [] st = "DelayedSuspended" -> [s1 EXCEPT !.tcb[t].task_state = "Delayed"]
                [] st = "PendSuspended" -> [s1 EXCEPT !.tcb[t].task_state = "Pend"]
                [] st = "PendTimeoutSuspended" -> [s1 EXCEPT !.tcb[t].task_state = "PendTimeout"]
                [] OTHER -> s1
    IN IF s.tcb[t].suspend_ctr = 0 THEN s
       ELSE IF s1.tcb[t].suspend_ctr = 0 THEN os_sched(s2) ELSE s1

TaskResume(t) ==
    /\ TaskLevel
    /\ t \in created
    /\ Commit(os_task_resume(State, t))
    /\ ret' = Ret(Caller, "task_resume", t, OPT_NONE,
                   IF tcb[t].suspend_ctr = 0 THEN "TaskNotSuspended" ELSE "Ok")
    /\ hist' = IF hist.susp[t] > 0 THEN [hist EXCEPT !.susp[t] = @ - 1] ELSE hist
    /\ UNCHANGED <<pc, created>>

----------------------------------------------------------------------------
(* time/mod.rs: os_time_dly.  The critical section ends before os_sched is
   called, so the call is two steps with interrupts enabled in between. *)

os_time_dly_cs(s, ticks) ==
    LET cur == s.cpu.tcb_cur
        s1 == [s EXCEPT !.tcb[cur].tick_remain = ticks,
                        !.tcb[cur].task_state = "Delayed"]
        expiry_tick == wrapping_add(s1.kf.tick_counter, ticks)
        s2 == tick_wheel_insert(s1, cur, expiry_tick)
    IN os_rdy_list_remove(s2, cur)

TimeDly(ticks) ==
    /\ TaskLevel
    /\ kf.sched_lock_nesting = 0
    /\ Commit(os_time_dly_cs(State, ticks))
    /\ pc' = [pc EXCEPT ![Caller] = [at |-> "dly", obj |-> NULL]]
    /\ ret' = Ret(Caller, "time_dly", NULL, OPT_NONE, "none")
    /\ hist' = [hist EXCEPT !.dly_due[Caller] = Armed(ticks)]
    /\ UNCHANGED created

TimeDlySched(t) ==
    /\ kf.running /\ cpu.tcb_cur = t /\ pc[t].at = "dly"
    /\ Commit(os_sched(State))
    /\ pc' = [pc EXCEPT ![t] = AtRun]
    /\ ret' = Ret(t, "time_dly_sched", NULL, OPT_NONE, "none")
    /\ UNCHANGED <<created, hist>>

(* time/mod.rs: os_time_dly_resume *)
os_time_dly_resume(s, t) ==
    LET st == s.tcb[t].task_state
        s1 == [s EXCEPT !.tcb[t].tick_remain = 0]
        s2 == CASE st = "Delayed" ->
                     os_rdy_list_insert([s1 EXCEPT !.tcb[t].task_state = "Ready"], t)
                [] st = "DelayedSuspended" ->
                     [s1 EXCEPT !.tcb[t].task_state = "Suspended"]
                [] OTHER -> s1
    IN IF st \notin {"Delayed", "DelayedSuspended"} THEN s ELSE os_sched(s2)

TimeDlyResume(t) ==
    /\ TaskLevel
    /\ t \in created
    /\ Commit(os_time_dly_resume(State, t))
    /\ ret' = Ret(Caller, "time_dly_resume", t, OPT_NONE, "none")
    /\ hist' = IF tcb[t].task_state \in {"Delayed", "DelayedSuspended"}
               THEN [hist EXCEPT !.dly_due[t] = NoDue] ELSE hist
    /\ UNCHANGED <<pc, created>>

(* time/mod.rs: os_tick_handler, from the SysTick exception *)
TickGhost(h, f) ==
    LET left(d) == IF d.st = "armed" THEN Armed(d.left - 1) ELSE d
        pl(t) == \E o \in Sems :
                   t \in Range(Walk([x \in TCBs |-> f.tcb[x].pend_next_ptr],
                                    f.sem[o].pend_list.head, <<>>, Cardinality(TCBs) + 1))
        wh(t) == \E i \in 0..(CFG_TICK_WHEEL_SIZE - 1) :
                   t \in Range(Walk([x \in TCBs |-> f.tcb[x].tick_next_ptr],
                                    f.tick_wheel[i], <<>>, Cardinality(TCBs) + 1))
        woken(t) == f.tcb[t].task_state = "Ready"
        timed_out(t) == /\ f.tcb[t].task_state = "Ready"
                        /\ f.tcb[t].pend_status = "Timeout"
                        /\ ~pl(t) /\ ~wh(t)
                        /\ \A o \in Sems : t \in Range(h.waitq[o]) => f.sem[o].count = 0
    IN [h EXCEPT
          !.dly_due = [t \in TCBs |->
              IF h.dly_due[t] = Armed(1)
              THEN IF woken(t) THEN NoDue ELSE Missed
              ELSE left(h.dly_due[t])],
          !.pend_due = [t \in TCBs |->
              IF h.pend_due[t] = Armed(1)
              THEN IF timed_out(t) THEN Expired ELSE Missed
              ELSE left(h.pend_due[t])],
          !.waitq = [o \in DOMAIN h.waitq |->
              SelectSeq(h.waitq[o], LAMBDA t : f.tcb[t].task_state \in PendStates)],
          !.ticks = @ + 1]

\* The SysTick interrupt, in a build with or without overflow checks
TickBuild(n, checks) ==
    /\ kf.running /\ ~kf.panicked
    /\ ~cpu.primask
    /\ hist.ticks < n
    /\ LET f == os_tick_handler([State EXCEPT !.overflow_checks = checks])
       IN /\ Commit(f)
          /\ hist' = TickGhost(hist, f)
    /\ ret' = Ret(NULL, "tick_handler", NULL, OPT_NONE, "none")
    /\ UNCHANGED <<pc, created>>

TickUpTo(n) == TickBuild(n, FALSE)

Tick == TickUpTo(MaxTick)

(* kernel.rs: os_sched_lock, os_sched_unlock *)
os_sched_lock(s) ==
    IF s.kf.sched_lock_nesting = 255 THEN s
    ELSE [s EXCEPT !.kf.sched_lock_nesting = @ + 1]

os_sched_unlock(s) ==
    LET s1 == [s EXCEPT !.kf.sched_lock_nesting = @ - 1]
    IN IF s.kf.sched_lock_nesting = 0 THEN s
       ELSE IF s1.kf.sched_lock_nesting = 0 THEN os_sched(s1) ELSE s1

SchedLock ==
    /\ TaskLevel
    /\ kf.sched_lock_nesting < MaxLock
    /\ Commit(os_sched_lock(State))
    /\ ret' = Ret(Caller, "sched_lock", NULL, OPT_NONE, "none")
    /\ UNCHANGED <<pc, created, hist>>

SchedUnlock ==
    /\ TaskLevel
    /\ Commit(os_sched_unlock(State))
    /\ ret' = Ret(Caller, "sched_unlock", NULL, OPT_NONE, "none")
    /\ UNCHANGED <<pc, created, hist>>

----------------------------------------------------------------------------
(* sync/sem.rs: OsSem::pend.  The result names what the call does: "ok",
   "would_block", "sched_locked" return at once; "block" is the path that
   blocks the caller, up to and including its call of os_sched. *)

Blocked(s, cur, timeout) ==
    [s EXCEPT !.tcb[cur].pend_status = "Ok",
              !.tcb[cur].tick_remain = timeout,
              !.tcb[cur].task_state = IF timeout > 0 THEN "PendTimeout" ELSE "Pend"]

OsSem_pend_kind(s, o, pend_opt) ==
    IF s.sem[o].count > 0 THEN "ok"
    ELSE IF pend_opt = PEND_NON_BLOCKING THEN "would_block"
    ELSE IF s.kf.sched_lock_nesting > 0 THEN "sched_locked"
    ELSE "block"

OsSem_pend(s, o, timeout, pend_opt) ==
    LET cur == s.cpu.tcb_cur
        kind == OsSem_pend_kind(s, o, pend_opt)
        s1 == Blocked(os_rdy_list_remove(s, cur), cur, timeout)
        ins == PendList_insert_by_prio(s1.tcb, s1.sem[o].pend_list, cur)
        s2 == [s1 EXCEPT !.tcb = ins.tcbs, !.sem[o].pend_list = ins.list]
    IN CASE kind = "ok" -> [s EXCEPT !.sem[o].count = @ - 1]
         [] kind = "block" -> os_sched(s2)
         [] OTHER -> s

PendErr(kind) ==
    CASE kind = "ok" -> "Ok"
      [] kind = "would_block" -> "PendWouldBlock"
      [] kind = "sched_locked" -> "SchedLocked"
      [] kind = "mutex_ovf" -> "MutexOvf"
      [] OTHER -> "none"

Enqueue(h, o, t) ==
    [h EXCEPT !.waitq = [x \in Objs |->
        IF x = o THEN Append(SeqWithout(h.waitq[x], t), t) ELSE SeqWithout(h.waitq[x], t)]]

\* A post wakes t; the semaphore is posted, so no timed pend on it is still
\* one "on a semaphore that is never posted"
Dequeue(h, o, t) ==
    [h EXCEPT !.waitq[o] = SeqWithout(@, t),
              !.pend_due = [x \in TCBs |->
                  IF x = t \/ x \in Range(h.waitq[o]) THEN NoDue ELSE h.pend_due[x]]]

\* allowed: whether the model lets the call be made in this state
SemPendIf(o, timeout, pend_opt, allowed) ==
    /\ TaskLevel
    /\ allowed
    /\ LET kind == OsSem_pend_kind(State, o, pend_opt)
       IN /\ Commit(OsSem_pend(State, o, timeout, pend_opt))
          /\ pc' = IF kind = "block"
                   THEN [pc EXCEPT ![Caller] = [at |-> "sem_pend", obj |-> o]]
                   ELSE pc
          /\ ret' = [Ret(Caller, "sem_pend", o, pend_opt, PendErr(kind))
                       EXCEPT !.num = IF kind = "ok" THEN sem[o].count - 1 ELSE NoNum]
          /\ hist' = IF kind = "block"
                     THEN [Enqueue(hist, o, Caller) EXCEPT !.pend_due[Caller] =
                             IF timeout > 0 THEN Armed(timeout) ELSE NoDue]
                     ELSE hist
    /\ UNCHANGED created

SemPend(o, timeout, pend_opt) == SemPendIf(o, timeout, pend_opt, TRUE)

(* OsSem::pend and OsMutex::pend after os_sched: the woken task reads pend_status *)
PendStatusErr(status) ==
    CASE status = "Ok" -> "Ok"
      [] status = "Timeout" -> "Timeout"
      [] status = "Abort" -> "PendAbort"
      [] status = "Del" -> "ObjDel"

PendReturn(t) ==
    /\ kf.running /\ cpu.tcb_cur = t /\ pc[t].at \in {"sem_pend", "mutex_pend"}
    /\ pc' = [pc EXCEPT ![t] = AtRun]
    /\ ret' = [Ret(t, pc[t].at, pc[t].obj, OPT_NONE, PendStatusErr(tcb[t].pend_status))
                 EXCEPT !.num = IF pc[t].at = "sem_pend" /\ tcb[t].pend_status = "Ok"
                                THEN sem[pc[t].obj].count ELSE NoNum]
    /\ hist' = IF hist.pend_due[t] = Expired
               THEN [hist EXCEPT !.pend_due[t] =
                       IF tcb[t].pend_status = "Timeout" THEN NoDue ELSE Missed]
               ELSE hist
    /\ UNCHANGED <<tcb, prio_tbl, rdy_list, tick_wheel, cpu, kf, sem, mutex, created>>

(* sync/sem.rs: OsSem::post *)
Woken(s, w) ==
    [s EXCEPT !.tcb[w].pend_status = "Ok",
              !.tcb[w].tick_remain = 0,
              !.tcb[w].task_state = "Ready"]

\* A post that counts also when it wakes a waiter: not what the code does
OsSem_post_counting(s, o, post_opt) ==
    LET w == s.sem[o].pend_list.head
        rm == PendList_remove(s.tcb, s.sem[o].pend_list, w)
        s1 == [s EXCEPT !.tcb = rm.tcbs, !.sem[o].pend_list = rm.list, !.sem[o].count = @ + 1]
        s2 == os_rdy_list_insert(Woken(s1, w), w)
    IN IF w # NULL
       THEN IF post_opt # POST_NO_SCHED /\ ~is_isr_context(s2) THEN os_sched(s2) ELSE s2
       ELSE IF s.sem[o].count = OsSemCtr_MAX THEN s
            ELSE [s EXCEPT !.sem[o].count = @ + 1]

OsSem_post(s, o, post_opt) ==
    LET w == s.sem[o].pend_list.head
        rm == PendList_remove(s.tcb, s.sem[o].pend_list, w)
        s1 == [s EXCEPT !.tcb = rm.tcbs, !.sem[o].pend_list = rm.list]
        s2 == os_rdy_list_insert(Woken(s1, w), w)
    IN IF w # NULL
       THEN IF post_opt # POST_NO_SCHED /\ ~is_isr_context(s2) THEN os_sched(s2) ELSE s2
       ELSE IF s.sem[o].count = OsSemCtr_MAX THEN s
            ELSE [s EXCEPT !.sem[o].count = @ + 1]

\* The value OsSem::post returns
OsSem_post_result(s, o, post_opt) ==
    IF s.sem[o].pend_list.head = NULL /\ s.sem[o].count = OsSemCtr_MAX
    THEN Ret(NULL, "sem_post", o, post_opt, "SemOvf")
    ELSE [Ret(NULL, "sem_post", o, post_opt, "Ok")
            EXCEPT !.num = OsSem_post(s, o, post_opt).sem[o].count]

SemPostIf(o, post_opt, allowed) ==
    /\ TaskLevel
    /\ allowed
    /\ Commit(OsSem_post(State, o, post_opt))
    /\ ret' = [OsSem_post_result(State, o, post_opt) EXCEPT !.task = Caller]
    /\ hist' = IF sem[o].pend_list.head # NULL
               THEN Dequeue(hist, o, sem[o].pend_list.head) ELSE hist
    /\ UNCHANGED <<pc, created>>

SemPost(o, post_opt) ==
    SemPostIf(o, post_opt, sem[o].pend_list.head = NULL => sem[o].count < MaxSemCount)

(* sync/sem.rs: OsSem::set *)
OsSem_set(s, o, count) ==
    IF is_isr_context(s) THEN s ELSE [s EXCEPT !.sem[o].count = count]

SemSet(o, count) ==
    /\ TaskLevel
    /\ Commit(OsSem_set(State, o, count))
    /\ ret' = [Ret(Caller, "sem_set", o, OPT_NONE, "Ok") EXCEPT !.num = count]
    /\ UNCHANGED <<pc, created, hist>>

(* sync/sem.rs: OsSem::create, called by main before os_start *)
OsSem_create(s, o, count) ==
    [s EXCEPT !.sem[o] = [count |-> count, pend_list |-> PendList_new]]

SemCreate(o, count) ==
    /\ ~kf.running
    /\ Commit(OsSem_create(State, o, count))
    /\ ret' = Ret(NULL, "sem_create", o, OPT_NONE, "Ok")
    /\ UNCHANGED <<pc, created, hist>>

----------------------------------------------------------------------------
(* sync/mutex.rs: OsMutex::pend *)

\* A pend that counts the owner's nesting without the check against
\* OsNestingCtr::MAX: not what the code does
OsMutex_pend_kind_unchecked(s, o, pend_opt) ==
    LET cur == s.cpu.tcb_cur
    IN IF s.mutex[o].owner = NULL THEN "take"
       ELSE IF s.mutex[o].owner = cur THEN "nest"
       ELSE IF pend_opt = PEND_NON_BLOCKING THEN "would_block"
       ELSE IF s.kf.sched_lock_nesting > 0 THEN "sched_locked"
       ELSE "block"

OsMutex_pend_kind(s, o, pend_opt) ==
    LET cur == s.cpu.tcb_cur
    IN IF s.mutex[o].owner = NULL THEN "take"
       ELSE IF s.mutex[o].owner = cur
            THEN IF s.mutex[o].nesting_ctr = OsNestingCtr_MAX THEN "mutex_ovf" ELSE "nest"
       ELSE IF pend_opt = PEND_NON_BLOCKING THEN "would_block"
       ELSE IF s.kf.sched_lock_nesting > 0 THEN "sched_locked"
       ELSE "block"

\* Inheritance that writes the prio field of every owner, Ready or not, and
\* leaves the ready lists alone: not what the code does
Inherit_in_place(s, owner, cur_prio) ==
    IF cur_prio < s.tcb[owner].prio
    THEN [s EXCEPT !.tcb[owner].prio = cur_prio]
    ELSE s

\* Inheritance that goes on along the chain of owners: the owner of the mutex
\* the owner waits for takes the prio too; not what the code does
Inherit_cascade(s, owner, cur_prio) ==
    LET waits(o) == owner \in Range(Walk([x \in TCBs |-> s.tcb[x].pend_next_ptr],
                                          s.mutex[o].pend_list.head, <<>>,
                                          Cardinality(TCBs) + 1))
        next_owners == {s.mutex[o].owner : o \in {m \in Mutexes : waits(m)}} \ {NULL}
        s1 == IF s.tcb[owner].task_state = "Ready"
              THEN os_rdy_list_change_prio(s, owner, cur_prio)
              ELSE [s EXCEPT !.tcb[owner].prio = cur_prio]
    IN IF cur_prio < s.tcb[owner].prio
       THEN [s1 EXCEPT !.tcb = [x \in TCBs |->
                IF x \in next_owners /\ cur_prio < s1.tcb[x].prio
                THEN [s1.tcb[x] EXCEPT !.prio = cur_prio] ELSE s1.tcb[x]]]
       ELSE s

\* Priority inheritance: the owner takes the caller's prio if that is higher
Inherit(s, owner, cur_prio) ==
    IF cur_prio < s.tcb[owner].prio
    THEN IF s.tcb[owner].task_state = "Ready"
         THEN os_rdy_list_change_prio(s, owner, cur_prio)
         ELSE [s EXCEPT !.tcb[owner].prio = cur_prio]
    ELSE s

OsMutex_pend(s, o, timeout, pend_opt) ==
    LET cur == s.cpu.tcb_cur
        kind == OsMutex_pend_kind(s, o, pend_opt)
        s0 == Inherit(s, s.mutex[o].owner, s.tcb[cur].prio)
        s1 == Blocked(os_rdy_list_remove(s0, cur), cur, timeout)
        ins == PendList_insert_by_prio(s1.tcb, s1.mutex[o].pend_list, cur)
        s2 == [s1 EXCEPT !.tcb = ins.tcbs, !.mutex[o].pend_list = ins.list]
    IN CASE kind = "take" -> [s EXCEPT !.mutex[o].owner = cur, !.mutex[o].nesting_ctr = 1]
         [] kind = "nest" -> [s EXCEPT !.mutex[o].nesting_ctr = @ + 1]
         [] kind = "block" -> os_sched(s2)
         [] OTHER -> s

\* The owner takes the mutex again while its nesting is below n
MutexPendUpTo(o, timeout, pend_opt, n) ==
    /\ TaskLevel
    /\ mutex[o].owner = Caller => mutex[o].nesting_ctr < n
    /\ LET kind == OsMutex_pend_kind(State, o, pend_opt)
       IN /\ Commit(OsMutex_pend(State, o, timeout, pend_opt))
          /\ pc' = IF kind = "block"
                   THEN [pc EXCEPT ![Caller] = [at |-> "mutex_pend", obj |-> o]]
                   ELSE pc
          /\ ret' = Ret(Caller, "mutex_pend", o, pend_opt,
                         IF kind \in {"take", "nest"} THEN "Ok" ELSE PendErr(kind))
          /\ hist' = IF kind = "block" THEN Enqueue(hist, o, Caller) ELSE hist
    /\ UNCHANGED created

MutexPend(o, timeout, pend_opt) == MutexPendUpTo(o, timeout, pend_opt, MaxNesting)

(* sync/mutex.rs: OsMutex::post *)
OsMutex_post_kind(s, o) ==
    IF s.mutex[o].owner # s.cpu.tcb_cur THEN "not_owner"
    ELSE IF s.mutex[o].nesting_ctr > 1 THEN "unnest"
    ELSE "release"

\* A release that moves a Ready task to the ready list of its base priority but
\* keeps an inherited prio in the TCB: not what the code does
Restore_list_only(s, cur) ==
    LET base == s.tcb[cur].base_prio
        old == s.tcb[cur].prio
        s1 == IF s.tcb[cur].task_state = "Ready"
              THEN os_rdy_list_change_prio(s, cur, base) ELSE s
    IN IF old # base THEN [s1 EXCEPT !.tcb[cur].prio = old] ELSE s

\* The releasing task goes back to its base priority
Restore(s, cur) ==
    LET base == s.tcb[cur].base_prio
        s1 == IF s.tcb[cur].task_state = "Ready"
              THEN os_rdy_list_change_prio(s, cur, base) ELSE s
    IN IF s.tcb[cur].prio # base THEN [s1 EXCEPT !.tcb[cur].prio = base] ELSE s

OsMutex_post(s, o, post_opt) ==
    LET cur == s.cpu.tcb_cur
        kind == OsMutex_post_kind(s, o)
        s1 == Restore([s EXCEPT !.mutex[o].nesting_ctr = 0], cur)
        w == s1.mutex[o].pend_list.head
        rm == PendList_remove(s1.tcb, s1.mutex[o].pend_list, w)
        s2 == [s1 EXCEPT !.tcb = rm.tcbs, !.mutex[o].pend_list = rm.list]
        s3 == [Woken(s2, w) EXCEPT !.mutex[o].owner = w, !.mutex[o].nesting_ctr = 1]
        s4 == os_rdy_list_insert(s3, w)
    IN CASE kind = "not_owner" -> s
         [] kind = "unnest" -> [s EXCEPT !.mutex[o].nesting_ctr = @ - 1]
         [] kind = "release" ->
              IF w # NULL
              THEN IF post_opt # POST_NO_SCHED THEN os_sched(s4) ELSE s4
              ELSE [s1 EXCEPT !.mutex[o].owner = NULL]

OsMutex_post_result(s, o) ==
    IF OsMutex_post_kind(s, o) = "not_owner" THEN "MutexNotOwner" ELSE "Ok"

MutexPost(o, post_opt) ==
    /\ TaskLevel
    /\ Commit(OsMutex_post(State, o, post_opt))
    /\ ret' = Ret(Caller, "mutex_post", o, post_opt, OsMutex_post_result(State, o))
    /\ hist' = IF OsMutex_post_kind(State, o) = "release" /\ mutex[o].pend_list.head # NULL
               THEN Dequeue(hist, o, mutex[o].pend_list.head) ELSE hist
    /\ UNCHANGED <<pc, created>>

----------------------------------------------------------------------------
(* OsSem::post called by an interrupt handler of the application: IPSR # 0, so
   the post does not call os_sched.  The handler ends with os_int_exit; it
   cannot call int_enter, which is private to the crate, so int_nesting is what
   the interrupted code left. *)
IsrSemPost(o) ==
    /\ kf.running
    /\ sem[o].pend_list.head = NULL => sem[o].count < MaxSemCount
    /\ Commit(os_int_exit(OsSem_post([State EXCEPT !.isr = TRUE], o, OPT_NONE)))
    /\ ret' = OsSem_post_result(State, o, OPT_NONE)
    /\ hist' = IF sem[o].pend_list.head # NULL
               THEN Dequeue(hist, o, sem[o].pend_list.head) ELSE hist
    /\ UNCHANGED <<pc, created>>

----------------------------------------------------------------------------
(* Every operation, with every input of the model *)
Next ==
    \/ OsStart
    \/ \E t \in AppTasks, p \in AppPrios : TaskCreate(t, p)
    \/ \E t \in TCBs : TaskDel(t)
    \/ \E t \in TCBs : TaskSuspend(t)
    \/ \E t \in TCBs : TaskResume(t)
    \/ \E d \in Delays : TimeDly(d)
    \/ \E t \in AppTasks : TimeDlySched(t)
    \/ \E t \in TCBs : TimeDlyResume(t)
    \/ Tick
    \/ SchedLock
    \/ SchedUnlock
    \/ \E o \in Sems, to \in Timeouts, opt \in {OPT_NONE, PEND_NON_BLOCKING} : SemPend(o, to, opt)
    \/ \E o \in Sems, opt \in {OPT_NONE, POST_NO_SCHED} : SemPost(o, opt)
    \/ \E o \in Sems : IsrSemPost(o)
    \/ \E o \in Mutexes, to \in Timeouts, opt \in {OPT_NONE, PEND_NON_BLOCKING} : MutexPend(o, to, opt)
    \/ \E o \in Mutexes, opt \in {OPT_NONE, POST_NO_SCHED} : MutexPost(o, opt)
    \/ \E t \in AppTasks : PendReturn(t)

Spec == Init /\ [][Next]_vars

----------------------------------------------------------------------------
(* Applications.  Each is a part of Next: main creates the three tasks with
   the priorities prio_of and starts the kernel, and the tasks then call some
   of the kernel's operations.  Every behaviour of an application is a
   behaviour of Spec. *)

PrioDistinct == [t \in AppTasks |-> CASE t = "A" -> 1 [] t = "B" -> 2 [] OTHER -> 3]
PrioSame == [t \in AppTasks |-> 1]
PrioPair == [t \in AppTasks |-> CASE t = "A" -> 1 [] OTHER -> 2]

Boot(tasks, prio_of) ==
    \/ \E t \in tasks : ~kf.running /\ TaskCreate(t, prio_of[t])
    \/ created = tasks \cup {IdleTcb} /\ OsStart

(* Tasks of three priorities that delay and share two mutexes *)
NextMutex ==
    \/ Boot(AppTasks, PrioDistinct)
    \/ TimeDly(1)
    \/ \E t \in AppTasks : TimeDlySched(t)
    \/ Tick
    \/ \E o \in Mutexes : MutexPend(o, 0, OPT_NONE)
    \/ \E o \in Mutexes : MutexPost(o, OPT_NONE)
    \/ \E t \in AppTasks : PendReturn(t)

SpecMutex == Init /\ [][NextMutex]_vars

(* Tasks of three priorities that wait for a semaphore, with and without a
   timeout, and share a mutex; the semaphore is posted by the tasks and by an
   interrupt handler *)
NextSem ==
    \/ Boot(AppTasks, PrioDistinct)
    \/ Tick
    \/ \E o \in Sems, to \in Timeouts : SemPend(o, to, OPT_NONE)
    \/ \E o \in Sems : SemPost(o, OPT_NONE)
    \/ \E o \in Sems : IsrSemPost(o)
    \/ MutexPend("M1", 0, OPT_NONE)
    \/ MutexPost("M1", OPT_NONE)
    \/ \E t \in AppTasks : PendReturn(t)

SpecSem == Init /\ [][NextSem]_vars

(* Tasks of one priority that suspend, resume and delete each other *)
NextTask ==
    \/ Boot(AppTasks, PrioSame)
    \/ \E t \in AppTasks : TaskDel(t)
    \/ \E t \in AppTasks : TaskSuspend(t)
    \/ \E t \in AppTasks : TaskResume(t)

SpecTask == Init /\ [][NextTask]_vars

(* Two tasks that share a mutex and suspend, resume and delete each other *)
NextDel ==
    \/ Boot({"A", "B"}, PrioDistinct)
    \/ \E t \in {"A", "B"} : TaskDel(t)
    \/ \E t \in {"A", "B"} : TaskSuspend(t)
    \/ \E t \in {"A", "B"} : TaskResume(t)
    \/ MutexPend("M1", 0, OPT_NONE)
    \/ MutexPost("M1", OPT_NONE)
    \/ \E t \in {"A", "B"} : PendReturn(t)

SpecDel == Init /\ [][NextDel]_vars

(* Two tasks that delay, end each other's delay, suspend and resume each other *)
NextDelay ==
    \/ Boot({"A", "B"}, PrioDistinct)
    \/ \E d \in Delays : TimeDly(d)
    \/ \E t \in {"A", "B"} : TimeDlySched(t)
    \/ \E t \in {"A", "B"} : TimeDlyResume(t)
    \/ \E t \in {"A", "B"} : TaskSuspend(t)
    \/ \E t \in {"A", "B"} : TaskResume(t)
    \/ Tick

SpecDelay == Init /\ [][NextDelay]_vars

(* Tasks of three priorities that wait for each other on a semaphore, which an
   interrupt handler posts too, and share two mutexes *)
NextInherit ==
    \/ Boot(AppTasks, PrioDistinct)
    \/ \E o \in Sems : SemPend(o, 0, OPT_NONE)
    \/ \E o \in Sems : SemPost(o, OPT_NONE)
    \/ \E o \in Sems : IsrSemPost(o)
    \/ \E o \in Mutexes : MutexPend(o, 0, OPT_NONE)
    \/ \E o \in Mutexes : MutexPost(o, OPT_NONE)
    \/ \E t \in AppTasks : PendReturn(t)

SpecInherit == Init /\ [][NextInherit]_vars

(* Three tasks, two of them of one priority, that share a mutex; A and C are
   suspended and resumed, and C is deleted *)
NextShare ==
    \/ Boot(AppTasks, PrioPair)
    \/ TaskDel("C")
    \/ \E t \in {"A", "C"} : TaskSuspend(t)
    \/ \E t \in {"A", "C"} : TaskResume(t)
    \/ MutexPend("M1", 0, OPT_NONE)
    \/ MutexPost("M1", OPT_NONE)
    \/ \E t \in AppTasks : PendReturn(t)

SpecShare == Init /\ [][NextShare]_vars

(* Two tasks of which the first takes a mutex again and again, as far as the
   nesting counter goes, and releases it *)
NextRecursive ==
    \/ Boot({"A", "B"}, PrioDistinct)
    \/ MutexPendUpTo("M1", 0, OPT_NONE, OsNestingCtr_MAX + 1)
    \/ MutexPost("M1", OPT_NONE)

SpecRecursive == Init /\ [][NextRecursive]_vars

(* Three tasks that take and post a semaphore which main has created with a
   count next to zero or next to the largest count; the count stays within
   MaxSemCount of where it can start *)
CreateCounts == {0, 1, OsSemCtr_MAX - 1, OsSemCtr_MAX}
InCountWindow(c) == c <= 1 + MaxSemCount \/ c >= OsSemCtr_MAX - 1 - MaxSemCount

NextCount ==
    \/ Boot(AppTasks, PrioDistinct)
    \/ \E c \in CreateCounts : SemCreate("S1", c)
    \/ \E opt \in {OPT_NONE, PEND_NON_BLOCKING} :
          SemPendIf("S1", 0, opt, InCountWindow(OsSem_pend(State, "S1", 0, opt).sem["S1"].count))
    \/ \E opt \in {OPT_NONE, POST_NO_SCHED} :
          SemPostIf("S1", opt, InCountWindow(OsSem_post(State, "S1", opt).sem["S1"].count))
    \/ \E t \in AppTasks : PendReturn(t)

SpecCount == Init /\ [][NextCount]_vars

(* Tasks that lock and unlock the scheduler for longer than a time quantum: A,
   of priority 1, delays and waits for a semaphore; B and C, of priority 2,
   post it *)
NextLock ==
    \/ Boot(AppTasks, PrioPair)
    \/ SchedLock
    \/ SchedUnlock
    \/ TickUpTo(MaxLockTicks)
    \/ Caller = "A" /\ TimeDly(1)
    \/ TimeDlySched("A")
    \/ Caller = "A" /\ SemPend("S1", 0, OPT_NONE)
    \/ SemPost("S1", OPT_NONE)
    \/ PendReturn("A")

SpecLock == Init /\ [][NextLock]_vars

(* Tasks of one priority that suspend, resume and delete each other and lock
   the scheduler *)
NextLockDel ==
    \/ NextTask
    \/ SchedLock
    \/ SchedUnlock

SpecLockDel == Init /\ [][NextLockDel]_vars

(* Two tasks of two priorities that create a third of a higher priority; the
   tasks suspend, resume and delete each other, post a semaphore, share a mutex
   and lock the scheduler *)
PrioLate == [t \in TCBs |-> CASE t = "A" -> 2 [] t = "B" -> 3 [] t = "C" -> 1
                               [] OTHER -> CFG_PRIO_IDLE]

NextCalls ==
    \/ Boot({"A", "B"}, PrioLate)
    \/ TaskLevel /\ TaskCreate("C", PrioLate["C"])
    \/ \E t \in {"A", "B"} : TaskDel(t)
    \/ \E t \in AppTasks : tcb[t].suspend_ctr = 0 /\ TaskSuspend(t)
    \/ \E t \in AppTasks : TaskResume(t)
    \/ sem["S1"].count = 0 /\ SemPost("S1", OPT_NONE)
    \/ mutex["M1"].owner # Caller /\ MutexPend("M1", 0, OPT_NONE)
    \/ MutexPost("M1", OPT_NONE)
    \/ \E t \in AppTasks : PendReturn(t)
    \/ kf.sched_lock_nesting = 0 /\ SchedLock
    \/ SchedUnlock

SpecCalls == Init /\ [][NextCalls]_vars

(* Three tasks of one priority that share the processor by time slicing; the
   first delays for two ticks, and the tick interrupt arrives at any point, also
   between the critical section of os_time_dly and its call of the scheduler *)
NextSliceDly ==
    \/ Boot(AppTasks, PrioSame)
    \/ Caller = "A" /\ TimeDly(SliceDly)
    \/ TimeDlySched("A")
    \/ TickUpTo(MaxSliceTicks)

SpecSliceDly == Init /\ [][NextSliceDly]_vars

(* Tasks of three priorities that delay for one tick and share a mutex, which
   they release with and without the option POST_NO_SCHED *)
NextPostOpt ==
    \/ Boot(AppTasks, PrioDistinct)
    \/ TimeDly(1)
    \/ \E t \in AppTasks : TimeDlySched(t)
    \/ Tick
    \/ MutexPend("M1", 0, OPT_NONE)
    \/ \E post_opt \in {OPT_NONE, POST_NO_SCHED} : MutexPost("M1", post_opt)
    \/ \E t \in AppTasks : PendReturn(t)

SpecPostOpt == Init /\ [][NextPostOpt]_vars

(* Tasks of three priorities that wait for a semaphore, post it and set its
   count *)
NextSemSet ==
    \/ Boot(AppTasks, PrioDistinct)
    \/ \E pend_opt \in {OPT_NONE, PEND_NON_BLOCKING} : SemPend("S1", 0, pend_opt)
    \/ \E post_opt \in {OPT_NONE, POST_NO_SCHED} : SemPost("S1", post_opt)
    \/ \E count \in 0..MaxSetCount : SemSet("S1", count)
    \/ \E t \in AppTasks : PendReturn(t)

SpecSemSet == Init /\ [][NextSemSet]_vars

(* Code of a task that enters and leaves critical sections, one inside the
   other, and calls the scheduler inside them *)
CsEnter ==
    /\ TaskLevel
    /\ hist.guards[Caller] < MaxGuards
    /\ Commit(CriticalSection_enter(State))
    /\ ret' = Ret(Caller, "cs_enter", NULL, OPT_NONE, "none")
    /\ hist' = [hist EXCEPT !.guards[Caller] = @ + 1]
    /\ UNCHANGED <<pc, created>>

CsDrop ==
    /\ TaskLevel
    /\ hist.guards[Caller] > 0
    /\ Commit(CriticalSection_drop(State))
    /\ ret' = Ret(Caller, "cs_drop", NULL, OPT_NONE, "none")
    /\ hist' = [hist EXCEPT !.guards[Caller] = @ - 1]
    /\ UNCHANGED <<pc, created>>

OsSched ==
    /\ TaskLevel
    /\ Commit(os_sched(State))
    /\ ret' = Ret(Caller, "sched", NULL, OPT_NONE, "none")
    /\ UNCHANGED <<pc, created, hist>>

NextCritical ==
    \/ Boot(AppTasks, PrioSame)
    \/ CsEnter
    \/ CsDrop
    \/ OsSched
    \/ Tick

SpecCritical == Init /\ [][NextCritical]_vars

(* The ticks of a long run of the kernel, all at once: the task that runs is
   alone at its priority and calls nothing, every other task waits for the
   processor, and `before` ticks are left until the tick counter wraps.  Each
   tick counts the counter up and the time quantum of the running task down,
   from time_quanta again after 0; nothing else changes. *)
TwoTo32Mod(q) == ((Half % q) * (Half % q)) % q

LongRun(before) ==
    /\ TaskLevel /\ ret.op = "os_start"
    /\ rdy_list[tcb[Caller].prio].head = rdy_list[tcb[Caller].prio].tail
    /\ LET q == tcb[Caller].time_quanta
           used == (TwoTo32Mod(q) + q - (before % q)) % q
           s1 == [State EXCEPT !.kf.tick_counter = [hi |-> Half - 1, lo |-> Half - before],
                               !.tcb[Caller].time_quanta_ctr = q - used]
       IN Commit(s1)
    /\ ret' = Ret(NULL, "tick_handler", NULL, OPT_NONE, "none")
    /\ UNCHANGED <<pc, created, hist>>

(* A task delays shortly before the tick counter wraps *)
NextWrap ==
    \/ Boot({"A", "B"}, PrioDistinct)
    \/ \E before \in 1..MaxBeforeWrap : LongRun(before)
    \/ \E d \in WrapDelays : ret.op # "os_start" /\ TimeDly(d)
    \/ \E t \in {"A", "B"} : TimeDlySched(t)
    \/ \E checks \in BOOLEAN : ret.op # "os_start" /\ TickBuild(MaxWrapTicks, checks)

SpecWrap == Init /\ [][NextWrap]_vars

\* The same in a build without overflow checks
NextWrapRelease ==
    \/ Boot({"A", "B"}, PrioDistinct)
    \/ \E before \in 1..MaxBeforeWrap : LongRun(before)
    \/ \E d \in WrapDelays : ret.op # "os_start" /\ TimeDly(d)
    \/ \E t \in {"A", "B"} : TimeDlySched(t)
    \/ ret.op # "os_start" /\ TickUpTo(MaxWrapTicks)

SpecWrapRelease == Init /\ [][NextWrapRelease]_vars

(* The priority bitmap by itself: inserts and removes of priorities at and
   around the ends of its words *)
BoundaryPrios == {0, 1, 31, 32, 33, 62, 63}

PrioInsert(p) ==
    /\ ~kf.running
    /\ prio_tbl' = PrioTable_insert(prio_tbl, p)
    /\ ret' = [Ret(NULL, "prio_insert", NULL, OPT_NONE, "none") EXCEPT !.num = p]
    /\ UNCHANGED <<tcb, rdy_list, tick_wheel, cpu, kf, sem, mutex, pc, created, hist>>

PrioRemove(p) ==
    /\ ~kf.running
    /\ prio_tbl' = PrioTable_remove(prio_tbl, p)
    /\ ret' = [Ret(NULL, "prio_remove", NULL, OPT_NONE, "none") EXCEPT !.num = p]
    /\ UNCHANGED <<tcb, rdy_list, tick_wheel, cpu, kf, sem, mutex, pc, created, hist>>

NextPrio ==
    \/ \E p \in BoundaryPrios : PrioInsert(p)
    \/ \E p \in BoundaryPrios : PrioRemove(p)

SpecPrio == Init /\ [][NextPrio]_vars

(* The checks the calls make before they act, on the state s they are called
   in; "proceed": the call goes on.  is_isr_context reads the IPSR register:
   true in every interrupt handler.  int_nesting is counted by
   KernelFlags::int_enter, which only os_tick_handler calls. *)
os_time_dly_check(s) ==
    IF ~s.kf.running THEN "OsNotRunning"
    ELSE IF is_isr_context(s) THEN "TimeDlyIsr" ELSE "proceed"

OsSem_pend_check(s) ==
    IF is_isr_context(s) THEN "PendIsr"
    ELSE IF ~s.kf.running THEN "OsNotRunning" ELSE "proceed"

OsMutex_pend_check(s) ==
    IF is_isr_context(s) THEN "PendIsr"
    ELSE IF ~s.kf.running THEN "OsNotRunning" ELSE "proceed"

os_task_create_check(s) ==
    IF is_isr_context(s) THEN "TaskCreateIsr" ELSE "proceed"

os_task_del_check(s) ==
    IF ~s.kf.running THEN "OsNotRunning"
    ELSE IF is_isr_context(s) THEN "TaskDelIsr" ELSE "proceed"

os_task_suspend_check(s) ==
    IF ~s.kf.running THEN "OsNotRunning"
    ELSE IF is_isr_context(s) THEN "TaskSuspendIsr" ELSE "proceed"

os_task_resume_check(s) ==
    IF ~s.kf.running THEN "OsNotRunning"
    ELSE IF is_isr_context(s) THEN "TaskResumeIsr" ELSE "proceed"

os_sched_lock_check(s) ==
    IF ~s.kf.running THEN "OsNotRunning"
    ELSE IF s.kf.int_nesting > 0 THEN "SchedLockIsr"
    ELSE IF s.kf.sched_lock_nesting = 255 THEN "LockNestingOvf" ELSE "Ok"

os_sched_unlock_check(s) ==
    IF ~s.kf.running THEN "OsNotRunning"
    ELSE IF s.kf.int_nesting > 0 THEN "SchedUnlockIsr"
    ELSE IF s.kf.sched_lock_nesting = 0 THEN "SchedNotLocked" ELSE "Ok"

IsrRefusing == {"time_dly", "sem_pend", "mutex_pend", "task_create", "task_del",
                "task_suspend", "task_resume"}

IsrCheck(s, op) ==
    CASE op = "time_dly" -> os_time_dly_check(s)
      [] op = "sem_pend" -> OsSem_pend_check(s)
      [] op = "mutex_pend" -> OsMutex_pend_check(s)
      [] op = "task_create" -> os_task_create_check(s)
      [] op = "task_del" -> os_task_del_check(s)
      [] op = "task_suspend" -> os_task_suspend_check(s)
      [] op = "task_resume" -> os_task_resume_check(s)

(* The handler of an interrupt of the application calls the kernel; ret.opt
   "ISR" marks the call *)
OPT_ISR == "ISR"

IsrCall(op) ==
    /\ kf.running /\ ~kf.panicked
    /\ IsrCheck([State EXCEPT !.isr = TRUE], op) # "proceed"
    /\ Commit(State)
    /\ ret' = Ret(NULL, op, NULL, OPT_ISR, IsrCheck([State EXCEPT !.isr = TRUE], op))
    /\ UNCHANGED <<pc, created, hist>>

IsrSchedLock ==
    /\ kf.running /\ ~kf.panicked
    /\ kf.sched_lock_nesting < MaxLock
    /\ LET s == [State EXCEPT !.isr = TRUE]
       IN /\ Commit(IF os_sched_lock_check(s) = "Ok" THEN os_sched_lock(s) ELSE s)
          /\ ret' = Ret(NULL, "sched_lock", NULL, OPT_ISR, os_sched_lock_check(s))
    /\ UNCHANGED <<pc, created, hist>>

IsrSchedUnlock ==
    /\ kf.running /\ ~kf.panicked
    /\ LET s == [State EXCEPT !.isr = TRUE]
       IN /\ Commit(IF os_sched_unlock_check(s) = "Ok" THEN os_sched_unlock(s) ELSE s)
          /\ ret' = Ret(NULL, "sched_unlock", NULL, OPT_ISR, os_sched_unlock_check(s))
    /\ UNCHANGED <<pc, created, hist>>

NextIsr ==
    \/ Boot(AppTasks, PrioPair)
    \/ \E op \in IsrRefusing : IsrCall(op)
    \/ IsrSchedLock
    \/ IsrSchedUnlock
    \/ SchedLock
    \/ SchedUnlock
    \/ Caller = "A" /\ TimeDly(1)
    \/ TimeDlySched("A")
    \/ Tick

SpecIsr == Init /\ [][NextIsr]_vars

(* kernel.rs: the state of the statics before os_init, os_reset_globals,
   os_init, and the checks of os_start *)
HistNew ==
    [dly_due |-> [t \in TCBs |-> NoDue],
     pend_due |-> [t \in TCBs |-> NoDue],
     waitq |-> [o \in Objs |-> <<>>],
     ticks |-> 0,
     deleted |-> {},
     susp |-> [t \in TCBs |-> 0],
     stage |-> [t \in TCBs |-> "start"],
     guards |-> [t \in TCBs |-> 0],
     produced |-> 0, consumed |-> 0]

InitStatics ==
    /\ tcb = [t \in TCBs |-> OsTcb_new]
    /\ prio_tbl = PrioTable_new
    /\ rdy_list = [p \in Prios |-> ReadyList_new]
    /\ tick_wheel = [i \in 0..(CFG_TICK_WHEEL_SIZE - 1) |-> NULL]
    /\ cpu = [tcb_cur |-> NULL, tcb_high_rdy |-> NULL, prio_cur |-> 0, prio_high_rdy |-> 0,
              primask |-> FALSE]
    /\ kf = [initialized |-> FALSE, running |-> FALSE, int_nesting |-> 0, in_critical |-> FALSE,
             panicked |-> FALSE, sched_lock_nesting |-> 0, tick_counter |-> OsTick_of(0)]
    /\ sem = [o \in Sems |-> [count |-> 0, pend_list |-> PendList_new]]
    /\ mutex = [o \in Mutexes |-> [owner |-> NULL, nesting_ctr |-> 0, pend_list |-> PendList_new]]
    /\ pc = [t \in TCBs |-> AtRun]
    /\ ret = NoRet
    /\ created = {}
    /\ hist = HistNew

os_reset_globals(s) ==
    [s EXCEPT !.kf.initialized = FALSE, !.kf.running = FALSE, !.kf.int_nesting = 0,
              !.kf.sched_lock_nesting = 0, !.kf.tick_counter = OsTick_of(0),
              !.cpu.tcb_cur = NULL, !.cpu.tcb_high_rdy = NULL,
              !.cpu.prio_cur = 0, !.cpu.prio_high_rdy = 0,
              !.prio_tbl = PrioTable_new,
              !.rdy_list = [p \in Prios |-> ReadyList_new],
              !.tick_wheel = [i \in 0..(CFG_TICK_WHEEL_SIZE - 1) |-> NULL]]

\* The running flag is read after os_reset_globals has cleared it
os_init_result(s) ==
    IF os_reset_globals(s).kf.running THEN "OsRunning" ELSE "Ok"

os_init(s) ==
    LET r == os_reset_globals(s)
        cs == CriticalSection_enter(r)
        idle == [OsTcb_new EXCEPT !.prio = CFG_PRIO_IDLE, !.base_prio = CFG_PRIO_IDLE,
                                  !.time_quanta = 0, !.time_quanta_ctr = 0,
                                  !.task_state = "Ready"]
        s1 == [cs EXCEPT !.prio_tbl = PrioTable_new,
                         !.rdy_list = [p \in Prios |-> ReadyList_new]]
        s2 == ReadyList_insert_tail([s1 EXCEPT !.tcb[IdleTcb] = idle], CFG_PRIO_IDLE, IdleTcb)
        s3 == [s2 EXCEPT !.prio_tbl = PrioTable_insert(s2.prio_tbl, CFG_PRIO_IDLE)]
        s4 == IF s3.kf.running THEN os_sched(s3) ELSE s3
    IN IF r.kf.running THEN r
       ELSE CriticalSection_drop([s4 EXCEPT !.kf.initialized = TRUE])

os_start_result(s) ==
    IF ~s.kf.initialized THEN "OsNotInit"
    ELSE IF s.kf.running THEN "OsRunning"
    ELSE "none"

\* os_init, called by main or, while the kernel runs, by the running task
OsInit ==
    /\ ~kf.panicked
    /\ kf.running => TaskLevel
    /\ Commit(os_init(State))
    /\ ret' = Ret(IF kf.running THEN Caller ELSE NULL, "os_init", NULL, OPT_NONE,
                  os_init_result(State))
    /\ created' = {IdleTcb}
    /\ pc' = [t \in TCBs |-> AtRun]
    /\ hist' = HistNew

\* os_start, called by main or by the running task; "none": it starts the
\* first task and does not return
OsStartCall ==
    /\ ~kf.panicked
    /\ kf.running => TaskLevel
    /\ Commit(IF os_start_result(State) = "none" THEN os_start(State) ELSE State)
    /\ ret' = Ret(IF kf.running THEN Caller ELSE NULL, "os_start", NULL, OPT_NONE,
                  os_start_result(State))
    /\ UNCHANGED <<pc, created, hist>>

NextStart ==
    \/ OsInit
    \/ OsStartCall
    \/ \E t \in AppTasks : ~kf.running /\ TaskCreate(t, PrioDistinct[t])
    \/ Caller = "A" /\ TimeDly(1)
    \/ TimeDlySched("A")
    \/ Tick

SpecStart == InitStatics /\ [][NextStart]_vars

(* Tasks that delete, suspend and resume each other and the idle task; task C
   has the priority of the idle task *)
PrioIdleShare == [t \in AppTasks |-> CASE t = "C" -> CFG_PRIO_IDLE [] OTHER -> 1]

NextIdle ==
    \/ Boot(AppTasks, PrioIdleShare)
    \/ \E t \in TCBs : TaskDel(t)
    \/ \E t \in TCBs : TaskSuspend(t)
    \/ \E t \in AppTasks : TaskResume(t)
    \/ TimeDly(1)
    \/ \E t \in AppTasks : TimeDlySched(t)
    \/ Tick

SpecIdle == Init /\ [][NextIdle]_vars

(* examples/producer_consumer.rs: producer_task at priority 15 loops
   { PRODUCED += 1; SEM.signal(0); os_time_dly(200) }, consumer_task at priority
   10 loops { SEM.wait(0, 0); CONSUMED += 1; a busy loop }; SEM starts at 0.
   The model counts the delay of the producer in units of ten ticks: 20, still
   more than one turn of the tick wheel. *)
PRODUCER_TCB == "A"
CONSUMER_TCB == "B"
SEM == "S1"
PRODUCER_DLY == 200 \div 10
PrioProducerConsumer == [t \in AppTasks |-> IF t = PRODUCER_TCB THEN 15 ELSE 10]

PcStage(t) ==
    IF hist.stage[t] # "start" THEN hist.stage[t]
    ELSE IF t = PRODUCER_TCB THEN "produce" ELSE "wait"

PcProduce ==
    /\ TaskLevel /\ Caller = PRODUCER_TCB /\ PcStage(Caller) = "produce"
    /\ hist' = [hist EXCEPT !.produced = @ + 1, !.stage[Caller] = "signal"]
    /\ ret' = Ret(Caller, "produce", NULL, OPT_NONE, "none")
    /\ UNCHANGED <<tcb, prio_tbl, rdy_list, tick_wheel, cpu, kf, sem, mutex, pc, created>>

PcSignal ==
    /\ TaskLevel /\ Caller = PRODUCER_TCB /\ PcStage(Caller) = "signal"
    /\ Commit(OsSem_post(State, SEM, OPT_NONE))
    /\ ret' = [OsSem_post_result(State, SEM, OPT_NONE) EXCEPT !.task = Caller]
    /\ hist' = [(IF sem[SEM].pend_list.head # NULL
                 THEN Dequeue(hist, SEM, sem[SEM].pend_list.head) ELSE hist)
                  EXCEPT !.stage[Caller] = "dly"]
    /\ UNCHANGED <<pc, created>>

PcDly ==
    /\ TaskLevel /\ Caller = PRODUCER_TCB /\ PcStage(Caller) = "dly"
    /\ Commit(os_time_dly_cs(State, PRODUCER_DLY))
    /\ pc' = [pc EXCEPT ![Caller] = [at |-> "dly", obj |-> NULL]]
    /\ ret' = Ret(Caller, "time_dly", NULL, OPT_NONE, "none")
    /\ hist' = [hist EXCEPT !.dly_due[Caller] = Armed(PRODUCER_DLY),
                            !.stage[Caller] = "produce"]
    /\ UNCHANGED created

PcWait ==
    /\ TaskLevel /\ Caller = CONSUMER_TCB /\ PcStage(Caller) = "wait"
    /\ LET kind == OsSem_pend_kind(State, SEM, OPT_NONE)
       IN /\ Commit(OsSem_pend(State, SEM, 0, OPT_NONE))
          /\ pc' = IF kind = "block"
                   THEN [pc EXCEPT ![Caller] = [at |-> "sem_pend", obj |-> SEM]]
                   ELSE pc
          /\ ret' = [Ret(Caller, "sem_pend", SEM, OPT_NONE, PendErr(kind))
                       EXCEPT !.num = IF kind = "ok" THEN sem[SEM].count - 1 ELSE NoNum]
          /\ hist' = [(IF kind = "block" THEN Enqueue(hist, SEM, Caller) ELSE hist)
                        EXCEPT !.stage[Caller] = "consume"]
    /\ UNCHANGED created

PcConsume ==
    /\ TaskLevel /\ Caller = CONSUMER_TCB /\ PcStage(Caller) = "consume"
    /\ hist' = [hist EXCEPT !.consumed = @ + 1, !.stage[Caller] = "wait"]
    /\ ret' = Ret(Caller, "consume", NULL, OPT_NONE, "none")
    /\ UNCHANGED <<tcb, prio_tbl, rdy_list, tick_wheel, cpu, kf, sem, mutex, pc, created>>

NextProducerConsumer ==
    \/ Boot({PRODUCER_TCB, CONSUMER_TCB}, PrioProducerConsumer)
    \/ PcProduce
    \/ PcSignal
    \/ PcDly
    \/ PcWait
    \/ PcConsume
    \/ TimeDlySched(PRODUCER_TCB)
    \/ PendReturn(CONSUMER_TCB)
    \/ TickUpTo(MaxPcTicks)

SpecProducerConsumer == Init /\ [][NextProducerConsumer]_vars

(* Two or three tasks of one priority, created in any order, that never
   block: only the ticks go on *)
NextRobin ==
    \/ Boot({"A", "B"}, PrioSame)
    \/ Boot(AppTasks, PrioSame)
    \/ TickUpTo(MaxRobinTicks)

SpecRobin == Init /\ [][NextRobin]_vars

----------------------------------------------------------------------------
(* examples/priority_inversion.rs: three tasks and one mutex.  The busy loops
   of the task functions change nothing in the kernel; a tick may come between
   any two calls. *)

HIGH_TCB == "A"
MED_TCB == "B"
LOW_TCB == "C"
MTX == "M1"
PrioExample ==
    [t \in AppTasks |-> CASE t = HIGH_TCB -> 5 [] t = MED_TCB -> 10 [] OTHER -> 15]

\* high_task_fn begins with os_time_dly(50), and the loops end with
\* os_time_dly(100), os_time_dly(10) and os_time_dly(200).  The model counts
\* these delays in units of ten ticks, which keeps their order and their ratios.
ExampleTicks(t, stage) ==
    CASE stage = "first_dly" -> 5
      [] t = HIGH_TCB -> 10
      [] t = MED_TCB -> 1
      [] OTHER -> 20

\* The call a task function makes next
Stage(t) ==
    IF hist.stage[t] # "start" THEN hist.stage[t]
    ELSE CASE t = HIGH_TCB -> "first_dly" [] t = MED_TCB -> "dly" [] OTHER -> "lock"

\* os_time_dly(..) of the task functions, up to the end of its critical section
ExampleDly ==
    /\ TaskLevel
    /\ Stage(Caller) \in {"first_dly", "dly"}
    /\ LET ticks == ExampleTicks(Caller, Stage(Caller))
       IN /\ Commit(os_time_dly_cs(State, ticks))
          /\ hist' = [hist EXCEPT !.dly_due[Caller] = Armed(ticks),
                                  !.stage[Caller] = IF Caller = MED_TCB THEN "dly" ELSE "lock"]
    /\ pc' = [pc EXCEPT ![Caller] = [at |-> "dly", obj |-> NULL]]
    /\ ret' = Ret(Caller, "time_dly", NULL, OPT_NONE, "none")
    /\ UNCHANGED created

\* MTX.lock(0, 0) of high_task_fn and low_task_fn
ExampleLock ==
    /\ TaskLevel
    /\ Stage(Caller) = "lock"
    /\ LET kind == OsMutex_pend_kind(State, MTX, OPT_NONE)
       IN /\ Commit(OsMutex_pend(State, MTX, 0, OPT_NONE))
          /\ pc' = IF kind = "block"
                   THEN [pc EXCEPT ![Caller] = [at |-> "mutex_pend", obj |-> MTX]]
                   ELSE pc
          /\ ret' = Ret(Caller, "mutex_pend", MTX, OPT_NONE,
                         IF kind \in {"take", "nest"} THEN "Ok" ELSE PendErr(kind))
          /\ hist' = [(IF kind = "block" THEN Enqueue(hist, MTX, Caller) ELSE hist)
                         EXCEPT !.stage[Caller] = "unlock"]
    /\ UNCHANGED created

\* MTX.unlock(0) of high_task_fn and low_task_fn
ExampleUnlock ==
    /\ TaskLevel
    /\ Stage(Caller) = "unlock"
    /\ Commit(OsMutex_post(State, MTX, OPT_NONE))
    /\ ret' = Ret(Caller, "mutex_post", MTX, OPT_NONE, OsMutex_post_result(State, MTX))
    /\ hist' = [(IF OsMutex_post_kind(State, MTX) = "release" /\ mutex[MTX].pend_list.head # NULL
                 THEN Dequeue(hist, MTX, mutex[MTX].pend_list.head) ELSE hist)
                  EXCEPT !.stage[Caller] = "dly"]
    /\ UNCHANGED <<pc, created>>

\* A task goes on: the next call of its function, or the rest of the call it is in
ExampleStep ==
    \/ ExampleDly
    \/ ExampleLock
    \/ ExampleUnlock
    \/ \E t \in AppTasks : TimeDlySched(t)
    \/ \E t \in AppTasks : PendReturn(t)

ExampleTick == TickUpTo(MaxRunTicks)

NextInversion ==
    \/ Boot(AppTasks, PrioExample)
    \/ ExampleStep
    \/ ExampleTick

\* The processor executes the running task, and SysTick keeps firing (up to
\* the bound of the model): weak fairness of ExampleStep and of ExampleTick,
\* written with the state predicates that say when they are enabled.  A step
\* of a task is the only kind of step that leaves a task in ret.task.
TaskRuns == kf.running /\ cpu.tcb_cur \in AppTasks
TickDue == kf.running /\ hist.ticks < MaxRunTicks
TaskFair == []<>(~TaskRuns) \/ []<><<ret'.task \in AppTasks>>_vars
TickFair == []<>(~TickDue) \/ []<><<hist'.ticks # hist.ticks>>_vars

SpecInversion == Init /\ [][NextInversion]_vars /\ TaskFair /\ TickFair

\* The same run when nothing obliges the processor or SysTick to go on
SpecInversionFree == Init /\ [][NextInversion]_vars

----------------------------------------------------------------------------
(* The properties *)

Min(S) == CHOOSE p \in S : \A q \in S : p <= q
Occupied == {p \in Prios : rdy_list[p].head # NULL}
ReschedulingCalls ==
    {"task_create", "task_resume", "time_dly_resume", "sem_post", "mutex_post",
     "mutex_pend", "sched_unlock"}

\* C1: when a task-level call that changes readiness or priorities (task_create,
\* task_resume, time_dly_resume, sem.post or mutex.post without POST_NO_SCHED,
\* mutex.pend, sched_unlock) has completed with the scheduler unlocked, the
\* running task is the head of the ready list of the numerically smallest
\* occupied priority, and no Ready task has a higher priority than it.
C1_RunsHighestReady ==
    (/\ kf.running
     /\ ret.task \in AppTasks
     /\ ret.op \in ReschedulingCalls
     /\ ret.opt # POST_NO_SCHED
     /\ kf.sched_lock_nesting = 0)
    => /\ Occupied # {}
       /\ cpu.tcb_cur = rdy_list[Min(Occupied)].head
       /\ \A t \in created :
             tcb[t].task_state = "Ready" => tcb[cpu.tcb_cur].prio <= tcb[t].prio

\* C6: for every owned mutex with waiters, the owner's prio is numerically less
\* than or equal to the prio of every task in the mutex's pend list.
C6_OwnerInheritsHighest ==
    \A o \in Mutexes :
        (mutex[o].owner # NULL /\ mutex[o].pend_list.head # NULL)
        => \A w \in PendMembers(o) : tcb[mutex[o].owner].prio <= tcb[w].prio

\* C9: walking the pend list of any semaphore or mutex from its head yields
\* TCBs in non-decreasing prio number.
C9_PendListSorted ==
    \A o \in Objs :
        \A i, j \in DOMAIN PendSeq(o) :
            i < j => tcb[PendSeq(o)[i]].prio <= tcb[PendSeq(o)[j]].prio

\* C2: every TCB is linked in at most one ready list, and it is linked in a
\* ready list if and only if its state is Ready.
C2_ReadyListIffReady ==
    \A t \in created :
        LET lists == {p \in Prios : t \in RdyMembers(p)}
        IN /\ Cardinality(lists) <= 1
           /\ lists # {} <=> tcb[t].task_state = "Ready"

\* C3: for every priority p, bitmap bit p is set if and only if the ready list
\* at p is non-empty.
C3_BitmapIffNonEmpty ==
    \A p \in Prios : PrioTable_is_set(prio_tbl, p) <=> ~ReadyList_is_empty(State, p)

\* C4: a task that called time_delay(D) and was not delay-resumed, suspended
\* or deleted since is not Ready before the D-th tick after the call, and the
\* tick handler of that tick makes it Ready.
C4_DelayLastsD ==
    \A t \in created :
        /\ hist.dly_due[t].st = "armed" => tcb[t].task_state = "Delayed"
        /\ hist.dly_due[t].st # "missed"

\* C5: mutex.pend returns Ok to a task only when that task is the owner of the
\* mutex (a mutex has one owner field, so no second task is told that it holds
\* the mutex while another owns it).
C5_PendOkOnlyToOwner ==
    (ret.op = "mutex_pend" /\ ret.val = "Ok") => mutex[ret.obj].owner = ret.task

\* C7: a task in sem.pend(timeout = T > 0) on a semaphore that is not posted
\* stays blocked until the T-th tick after the call; the tick handler of that
\* tick makes it Ready with pend_status Timeout, linked neither in the pend
\* list nor in the tick wheel, with the count unchanged; its pend returns
\* Timeout.
C7_SemPendTimesOut ==
    \A t \in created :
        /\ hist.pend_due[t].st = "armed" => tcb[t].task_state = "PendTimeout"
        /\ hist.pend_due[t].st # "missed"

IndexOf(q, x) == CHOOSE i \in DOMAIN q : q[i] = x

\* C8: a post on a semaphore or mutex with waiters wakes the task of the pend
\* list whose prio is numerically smallest, and of those of that prio the one
\* that began to wait first.
C8_PostWakesStep ==
    \A o \in Objs :
        LET before == PendMembers(o)
            gone == before \ PendMembers(o)'
            q == hist.waitq[o]
        IN (ret'.op \in {"sem_post", "mutex_post"} /\ ret'.obj = o)
           => \A w \in gone, x \in before :
                 /\ tcb[w].prio <= tcb[x].prio
                 /\ (tcb[w].prio = tcb[x].prio /\ w \in Range(q) /\ x \in Range(q))
                    => IndexOf(q, w) <= IndexOf(q, x)

C8_PostWakesHighest == [][C8_PostWakesStep]_vars

\* C10: a TCB is linked in a pend list if and only if its state is Pend,
\* PendTimeout, PendSuspended or PendTimeoutSuspended, and then in one list.
C10_PendListIffPending ==
    \A t \in created :
        LET lists == {o \in Objs : t \in PendMembers(o)}
        IN /\ Cardinality(lists) <= 1
           /\ lists # {} <=> tcb[t].task_state \in PendStates

\* C11: a TCB is linked in the tick wheel if and only if its state is Delayed,
\* DelayedSuspended, PendTimeout or PendTimeoutSuspended.
C11_WheelIffTimed ==
    \A t \in created : InWheel(t) <=> tcb[t].task_state \in TickStates

Unlinked(t) ==
    /\ \A p \in Prios : t \notin RdyMembers(p)
    /\ \A o \in Objs : t \notin PendMembers(o)
    /\ ~InWheel(t)

\* C12: from the step in which task_delete(t) succeeds on, t is linked in no
\* ready list, pend list or tick-wheel slot and its state is Suspended (so it is
\* never Ready again); the delete takes t, and nothing else, out of the ready
\* lists.
C12_DeleteStep ==
    /\ \A t \in hist.deleted' : Unlinked(t)' /\ tcb'[t].task_state = "Suspended"
    /\ \A t \in hist.deleted' \ hist.deleted :
          \A p \in Prios : RdySeq(p)' = SeqWithout(RdySeq(p), t)

C12_DeletedStaysOut == [][C12_DeleteStep]_vars

\* C13: a task whose suspend_ctr is greater than zero is not in state Ready and
\* is linked in no ready list.
C13_SuspendedNotReady ==
    \A t \in created :
        tcb[t].suspend_ctr > 0
        => /\ tcb[t].task_state # "Ready"
           /\ \A p \in Prios : t \notin RdyMembers(p)

SuspendedStates == {"Suspended", "DelayedSuspended", "PendSuspended", "PendTimeoutSuspended"}

Resumed(st) ==
    CASE st = "Suspended" -> "Ready"
      [] st = "DelayedSuspended" -> "Delayed"
      [] st = "PendSuspended" -> "Pend"
      [] st = "PendTimeoutSuspended" -> "PendTimeout"
      [] OTHER -> st

\* C14: a task that was not deleted is in a *Suspended state if and only if more
\* task_suspend than task_resume calls were made on it; a task_resume that
\* leaves suspends unmatched does not change the state; the one that matches
\* the last suspend changes it to the non-suspended counterpart, with the
\* ready-list insert for Suspended -> Ready; a task_resume on a task with no
\* unmatched suspend returns TaskNotSuspended and changes nothing.
C14_NestingStep ==
    /\ \A t \in created' \ hist.deleted' :
          tcb'[t].task_state \in SuspendedStates <=> hist.susp'[t] > 0
    /\ \A t \in created \ hist.deleted :
          (ret'.op = "task_resume" /\ ret'.obj = t)
          => CASE hist.susp[t] = 0 ->
                    /\ ret'.val = "TaskNotSuspended"
                    /\ UNCHANGED <<tcb, prio_tbl, rdy_list, tick_wheel, cpu, kf, sem, mutex>>
               [] hist.susp[t] = 1 ->
                    /\ ret'.val = "Ok"
                    /\ tcb'[t].task_state = Resumed(tcb[t].task_state)
                    /\ tcb[t].task_state = "Suspended"
                       => \A p \in Prios : p = tcb[t].prio => t \in RdyMembers(p)'
               [] OTHER ->
                    /\ ret'.val = "Ok"
                    /\ tcb'[t].task_state = tcb[t].task_state

C14_SuspendNesting == [][C14_NestingStep]_vars

\* C15: when the tick handler or an interrupt handler's sem.post makes Ready a
\* task whose prio is numerically smaller than the prio of the interrupted
\* task, with the scheduler unlocked, then at the exit of the handler
\* tcb_high_rdy is the head of the highest-priority non-empty ready list and
\* the switch to it is taken.
C15_IsrExitStep ==
    LET woke == {t \in created : tcb[t].task_state # "Ready" /\ tcb'[t].task_state = "Ready"}
    IN (/\ kf.running
        /\ ret'.task = NULL
        /\ ret'.op \in {"tick_handler", "sem_post"}
        /\ kf.sched_lock_nesting = 0
        /\ \E t \in woke : tcb'[t].prio < tcb[cpu.tcb_cur].prio)
       => /\ Occupied' # {}
          /\ cpu'.tcb_high_rdy = rdy_list'[Min(Occupied')].head
          /\ cpu'.tcb_cur = cpu'.tcb_high_rdy

C15_IsrExitPreempts == [][C15_IsrExitStep]_vars

Last(q) == q[Len(q)]

\* C16: when the running task, of prio c, blocks in mutex.pend on a mutex whose
\* owner has prio o: if c < o the owner's prio becomes c; an owner that is
\* Ready is then the tail of the ready list at c and in no other, with the
\* bitmap bits of o and c set exactly when those ready lists are non-empty; an
\* owner that is not Ready has nothing but its prio field changed; if c >= o
\* the owner's prio is unchanged.
C16_InheritStep ==
    LET cur == cpu.tcb_cur
        own == mutex[ret'.obj].owner
        o == tcb[own].prio
    IN \A c \in Prios :
       (/\ ret'.op = "mutex_pend" /\ pc[cur] = AtRun /\ pc'[ret'.task].at = "mutex_pend"
        /\ c = tcb[cur].prio)
       => IF c < o
          THEN /\ tcb'[own].prio = c
               /\ IF tcb[own].task_state = "Ready"
                  THEN /\ tcb'[own].task_state = "Ready"
                       /\ RdySeq(c)' # <<>> /\ Last(RdySeq(c)') = own
                       /\ \A p \in Prios \ {c} : own \notin RdyMembers(p)'
                       /\ \A p \in {o, c} : PrioTable_is_set(prio_tbl', p) <=> rdy_list'[p].head # NULL
                  ELSE /\ tcb'[own] = [tcb[own] EXCEPT !.prio = c]
                       /\ \A p \in Prios : own \notin RdyMembers(p)'
          ELSE tcb'[own].prio = o

C16_PendInherits == [][C16_InheritStep]_vars

\* C17: when a task fully releases a mutex (post by the owner with nesting 1),
\* its prio equals its base_prio afterwards, and if it is Ready it is linked in
\* the ready list of base_prio and in no other; when the mutex has no waiter
\* (as when the post follows the task's own pend of the free mutex), the post
\* leaves it with no owner and nesting 0.
C17_ReleaseStep ==
    LET cur == cpu.tcb_cur
        m == ret'.obj
    IN \A b \in Prios :
       (/\ ret'.op = "mutex_post"
        /\ mutex[m].owner = cur /\ mutex[m].nesting_ctr = 1
        /\ b = tcb[cur].base_prio)
       => /\ tcb'[ret'.task].prio = b
          /\ tcb'[ret'.task].task_state = "Ready"
             => /\ ret'.task \in RdyMembers(b)'
                /\ \A p \in Prios \ {b} : ret'.task \notin RdyMembers(p)'
          /\ mutex[m].pend_list.head = NULL
             => mutex'[m].owner = NULL /\ mutex'[m].nesting_ctr = 0

C17_PostRestoresBase == [][C17_ReleaseStep]_vars

C19_NoOrphan == \A o \in Mutexes : mutex[o].owner = NULL => mutex[o].pend_list.head = NULL

C19_HandOverStep ==
    /\ C19_NoOrphan /\ C19_NoOrphan'
    /\ \A o \in Mutexes : \A w \in TCBs :
         (/\ ret'.op = "mutex_post" /\ ret'.obj = o
          /\ mutex[o].owner = cpu.tcb_cur /\ mutex[o].nesting_ctr = 1
          /\ mutex[o].pend_list.head = w)
         => /\ mutex'[o].owner = w
            /\ mutex'[o].nesting_ctr = 1
            /\ tcb'[w].task_state = "Ready"
            /\ tcb'[w].pend_status = "Ok"
            /\ w \notin PendMembers(o)'
            /\ mutex'[o].pend_list.head # w

C19_PostHandsOver == [][C19_HandOverStep]_vars

\* C20: in the run of examples/priority_inversion.rs, with H (prio 5), M (prio
\* 10) and L (prio 15): whenever L owns the mutex and H is blocked on it, L is
\* the running task (it runs in preference to M, Ready or not); the step by
\* which L stops owning the mutex makes H the owner and the running task and
\* leaves L with prio = base_prio = 15; and, the processor and the ticks going
\* on, H blocked on the mutex is always followed by H owning it.
HighWaitsForLow ==
    /\ mutex[MTX].owner = LOW_TCB
    /\ pc[HIGH_TCB].at = "mutex_pend"
    /\ tcb[HIGH_TCB].task_state = "Pend"

C20_ReleaseStep ==
    /\ HighWaitsForLow => cpu.tcb_cur = LOW_TCB /\ tcb[LOW_TCB].prio = 5
    /\ (HighWaitsForLow /\ mutex'[MTX].owner # LOW_TCB)
       => /\ mutex'[MTX].owner = HIGH_TCB
          /\ cpu'.tcb_cur = HIGH_TCB
          /\ tcb'[LOW_TCB].prio = 15 /\ tcb'[LOW_TCB].base_prio = 15

C20_BoundedInversion ==
    /\ [][C20_ReleaseStep]_vars
    /\ HighWaitsForLow ~> (mutex[MTX].owner = HIGH_TCB)

\* L has released the mutex to the waiting H while M was Ready: H owns it and
\* runs
C20_Witness ==
    /\ ret.op = "mutex_post" /\ ret.task = LOW_TCB
    /\ mutex[MTX].owner = HIGH_TCB /\ cpu.tcb_cur = HIGH_TCB
    /\ tcb[MED_TCB].task_state = "Ready"
    /\ tcb[LOW_TCB].prio = 15

\* C21: a pend by the owner at nesting n < 255 returns Ok without blocking and
\* leaves nesting n + 1 (so N successive pends of a free mutex leave nesting N);
\* a pend by the owner at nesting 255 returns MutexOvf and changes nothing; a
\* post by the owner at nesting n > 1 leaves it the owner at nesting n - 1, and
\* its post at nesting 1 with no waiter leaves owner None and nesting 0; a post
\* by a task that is not the owner returns MutexNotOwner and changes nothing.
KernelVars == <<tcb, prio_tbl, rdy_list, tick_wheel, cpu, kf, sem, mutex, pc>>

C21_RecursiveStep ==
    \A o \in Mutexes :
      LET n == mutex[o].nesting_ctr
      IN
      (ret'.obj = o /\ ret'.task = cpu.tcb_cur /\ pc[cpu.tcb_cur] = AtRun)
      => /\ (ret'.op = "mutex_pend" /\ mutex[o].owner = NULL)
            => /\ ret'.val = "Ok"
               /\ mutex'[o] = [mutex[o] EXCEPT !.owner = cpu.tcb_cur, !.nesting_ctr = 1]
               /\ cpu'.tcb_cur = cpu.tcb_cur /\ pc' = pc
         /\ (ret'.op = "mutex_pend" /\ mutex[o].owner = cpu.tcb_cur /\ n < 255)
            => /\ ret'.val = "Ok"
               /\ mutex'[o] = [mutex[o] EXCEPT !.nesting_ctr = n + 1]
               /\ cpu'.tcb_cur = cpu.tcb_cur /\ pc' = pc
         /\ (ret'.op = "mutex_pend" /\ mutex[o].owner = cpu.tcb_cur /\ n = 255)
            => ret'.val = "MutexOvf" /\ UNCHANGED KernelVars
         /\ (ret'.op = "mutex_post" /\ mutex[o].owner = cpu.tcb_cur /\ n > 1)
            => /\ ret'.val = "Ok"
               /\ mutex'[o] = [mutex[o] EXCEPT !.nesting_ctr = n - 1]
         /\ (ret'.op = "mutex_post" /\ mutex[o].owner = cpu.tcb_cur /\ n = 1
               /\ mutex[o].pend_list.head = NULL)
            => /\ ret'.val = "Ok"
               /\ mutex'[o] = [mutex[o] EXCEPT !.owner = NULL, !.nesting_ctr = 0]
         /\ (ret'.op = "mutex_post" /\ mutex[o].owner # cpu.tcb_cur)
            => ret'.val = "MutexNotOwner" /\ UNCHANGED KernelVars

C21_RecursiveLocking == [][C21_RecursiveStep]_vars

\* The owner has asked for the mutex at nesting 255 and has been refused
C21_Witness ==
    /\ ret.op = "mutex_pend" /\ ret.val = "MutexOvf"
    /\ mutex[ret.obj].owner = ret.task /\ mutex[ret.obj].nesting_ctr = 255

\* C22: a sem.pend at count c > 0 returns Ok(c - 1) without blocking and leaves
\* count c - 1; a sem.post with an empty pend list leaves count c + 1, except
\* at c = OsSemCtr::MAX, where it returns SemOvf and leaves the count as it is;
\* a sem.post with a waiter leaves the count unchanged.  (So below MAX a post
\* and then a pend, with no waiter, bring the count back.)
C22_PendStep ==
    \A o \in Sems :
      (ret'.op = "sem_pend" /\ ret'.obj = o /\ ret'.task = cpu.tcb_cur
       /\ pc[cpu.tcb_cur] = AtRun /\ sem[o].count > 0)
      => /\ ret'.val = "Ok" /\ ret'.num = sem[o].count - 1
         /\ sem'[o].count = sem[o].count - 1
         /\ cpu'.tcb_cur = cpu.tcb_cur /\ pc' = pc

C22_PostWaiterStep ==
    \A o \in Sems :
      (ret'.op = "sem_post" /\ ret'.obj = o /\ sem[o].pend_list.head # NULL)
      => sem'[o].count = sem[o].count

C22_CountStep ==
    /\ C22_PendStep
    /\ C22_PostWaiterStep
    /\ \A o \in Sems :
         (ret'.op = "sem_post" /\ ret'.obj = o /\ sem[o].pend_list.head = NULL)
         => IF sem[o].count = OsSemCtr_MAX
            THEN ret'.val = "SemOvf" /\ sem'[o].count = sem[o].count
            ELSE ret'.val = "Ok" /\ sem'[o].count = sem[o].count + 1

C22_SemCounting == [][C22_CountStep]_vars

\* C22 as the claim states it: every sem.post with an empty pend list leaves
\* the count larger by exactly one
C22_OriginalStep ==
    /\ C22_PendStep
    /\ C22_PostWaiterStep
    /\ \A o \in Sems :
         (ret'.op = "sem_post" /\ ret'.obj = o /\ sem[o].pend_list.head = NULL)
         => sem'[o].count - 1 = sem[o].count

C22_PostAlwaysCounts == [][C22_OriginalStep]_vars

\* A post has found a waiter and the count, above zero only by an earlier
\* create, is what it was
C22_Witness ==
    /\ ret.op = "sem_post" /\ ret.val = "Ok" /\ ret.task \in AppTasks
    /\ \E t \in AppTasks : pc[t].at = "sem_pend" /\ tcb[t].task_state = "Ready"
    /\ sem[ret.obj].count = ret.num

\* C23: sched_lock nests; a step that begins with the scheduler locked and
\* does not end with it unlocked, and the step that locks it, leave the running
\* task running, whatever schedule(), the round-robin of a tick or int_exit
\* find; the sched_unlock that brings the nesting to zero leaves as the running
\* task a Ready task that no Ready task precedes in priority.
C23_LockStep ==
    /\ ret'.op = "sched_lock" => kf'.sched_lock_nesting = kf.sched_lock_nesting + 1
    /\ (ret'.op = "sched_unlock" /\ kf.sched_lock_nesting > 0)
         => kf'.sched_lock_nesting = kf.sched_lock_nesting - 1
    /\ (ret'.op \notin {"sched_lock", "sched_unlock"})
         => kf'.sched_lock_nesting = kf.sched_lock_nesting
    /\ (kf.running /\ kf'.sched_lock_nesting > 0) => cpu'.tcb_cur = cpu.tcb_cur
    /\ (kf.sched_lock_nesting > 0 /\ kf'.sched_lock_nesting = 0)
         => /\ ret'.op = "sched_unlock"
            /\ tcb'[cpu'.tcb_cur].task_state = "Ready"
            /\ \A t \in created :
                  tcb'[t].task_state = "Ready" => tcb'[cpu'.tcb_cur].prio <= tcb'[t].prio

C23_SchedLockHolds == [][C23_LockStep]_vars

\* C24: with two or three tasks of one priority that are always Ready, and
\* the time quantum q the tasks are created with, the running task is the head
\* of the ready list and every other task has its whole quantum before it; a
\* tick before the q-th of the running task leaves the list and the running
\* task as they are, and the q-th moves the running task to the tail and runs
\* the new head.  So the tasks run q ticks each in the order of the list, round
\* after round, and after n ticks the running task has had n mod q ticks of its
\* quantum.
RobinList == RdySeq(1)

C24_RobinStep ==
    (kf.running /\ ret'.op = "tick_handler")
    => \A cur \in AppTasks : \A c \in 1..CFG_TIME_QUANTA_DEFAULT :
         (cur = cpu.tcb_cur /\ c = tcb[cur].time_quanta_ctr)
         => /\ Len(RobinList) >= 2 /\ Head(RobinList) = cur
            /\ c = CFG_TIME_QUANTA_DEFAULT - (hist.ticks % CFG_TIME_QUANTA_DEFAULT)
            /\ \A t \in Range(RobinList) \ {cur} :
                  tcb[t].time_quanta_ctr = CFG_TIME_QUANTA_DEFAULT
            /\ IF c > 1
               THEN /\ RobinList' = RobinList
                    /\ cpu'.tcb_cur = cur
                    /\ tcb'[cur].time_quanta_ctr = c - 1
               ELSE /\ RobinList' = Append(Tail(RobinList), cur)
                    /\ cpu'.tcb_cur = Head(Tail(RobinList))
                    /\ tcb'[cur].time_quanta_ctr = CFG_TIME_QUANTA_DEFAULT

C24_RoundRobin ==
    /\ [][C24_RobinStep]_vars
    /\ [](kf.running => cpu.tcb_cur \in AppTasks /\ tcb[cpu.tcb_cur].time_quanta_ctr >= 1)

\* The third of three tasks has used up its quantum and the first runs again
C24_Witness ==
    /\ ret.op = "tick_handler" /\ hist.ticks = 3 * CFG_TIME_QUANTA_DEFAULT
    /\ Len(RobinList) = 3
    /\ cpu.tcb_cur = Head(RobinList)
    /\ \A t \in AppTasks : tcb[t].time_quanta_ctr = CFG_TIME_QUANTA_DEFAULT

\* C25: critical sections nest: while the code of the running task holds a
\* CriticalSection guard, the processor masks interrupts; leaving an inner
\* section, the one of os_sched included, leaves them masked.
C25_MaskedInside ==
    (kf.running /\ Caller \in AppTasks /\ hist.guards[Caller] > 0) => cpu.primask

\* C26: a delay that ends after the tick counter has wrapped is as exact as
\* any other: the task that called time_delay(D), at 0xFFFF_FFFE for instance,
\* is Delayed until the D-th tick after the call, the handler of that tick
\* makes it Ready, and the kernel goes on handling ticks until then.
C26_WrapDelay ==
    \A t \in created :
        /\ hist.dly_due[t].st = "armed"
           => tcb[t].task_state = "Delayed" /\ ~kf.panicked
        /\ hist.dly_due[t].st # "missed"

\* C27: get_highest returns the smallest priority whose bit is set, and
\* CFG_PRIO_MAX - 1 when no bit is set; insert(p) sets the bit of p and remove(p)
\* clears it, whatever it was, and neither touches the bit of another priority,
\* at the ends of the words (31, 32, 63) as elsewhere.
AllPrios == 0..(CFG_PRIO_MAX - 1)

SetPrios(tbl) == {p \in AllPrios : PrioTable_is_set(tbl, p)}

C27_Highest ==
    PrioTable_get_highest(prio_tbl) =
        IF SetPrios(prio_tbl) = {} THEN CFG_PRIO_MAX - 1 ELSE Min(SetPrios(prio_tbl))

C27_SetStep ==
    /\ ret'.op = "prio_insert" => SetPrios(prio_tbl') = SetPrios(prio_tbl) \cup {ret'.num}
    /\ ret'.op = "prio_remove" => SetPrios(prio_tbl') = SetPrios(prio_tbl) \ {ret'.num}

C27_BitmapIsSet == [][C27_SetStep]_vars /\ []C27_Highest

\* Priority 31 has been removed and 32, in the next word, is the highest left
C27_Witness ==
    /\ ret.op = "prio_remove" /\ ret.num = 31
    /\ SetPrios(prio_tbl) = {32, 63}
    /\ PrioTable_get_highest(prio_tbl) = 32

\* C28: a call of time_delay, sem.pend, mutex.pend, task_create, task_delete,
\* task_suspend, task_resume, sched_lock or sched_unlock made in an interrupt
\* handler, whichever it is, returns the error of that call for handlers and
\* changes nothing in the kernel.
IsrError ==
    [time_dly |-> "TimeDlyIsr", sem_pend |-> "PendIsr", mutex_pend |-> "PendIsr",
     task_create |-> "TaskCreateIsr", task_del |-> "TaskDelIsr",
     task_suspend |-> "TaskSuspendIsr", task_resume |-> "TaskResumeIsr",
     sched_lock |-> "SchedLockIsr", sched_unlock |-> "SchedUnlockIsr"]

C28_IsrStep ==
    ret'.opt = OPT_ISR
    => ret'.val = IsrError[ret'.op] /\ UNCHANGED KernelVars

C28_IsrRefused == [][C28_IsrStep]_vars

\* The seven calls that ask is_isr_context are refused in every handler
C28_SevenStep ==
    (ret'.opt = OPT_ISR /\ ret'.op \in IsrRefusing)
    => ret'.val = IsrError[ret'.op] /\ UNCHANGED KernelVars

C28_SevenRefused == [][C28_SevenStep]_vars

\* C29: os_init called while the kernel runs returns OsRunning and leaves the
\* running flag, the tick counter, the ready lists, the bitmap, the tick wheel and
\* the current task as they are.
C29_InitStep ==
    (kf.running /\ ret'.op = "os_init")
    => ret'.val = "OsRunning" /\ UNCHANGED KernelVars

C29_InitRefusedRunning == [][C29_InitStep]_vars

\* C30: os_start before os_init returns OsNotInit; os_start when only the idle
\* task has been created returns OsNoAppTask and the kernel does not run.
C30_NotInitStep ==
    (~kf.initialized /\ ret'.op = "os_start")
    => ret'.val = "OsNotInit" /\ UNCHANGED KernelVars

C30_NoAppTaskStep ==
    (kf.initialized /\ ~kf.running /\ created = {IdleTcb} /\ ret'.op = "os_start")
    => ret'.val = "OsNoAppTask" /\ ~kf'.running

C30_StartChecks == [][C30_NotInitStep /\ C30_NoAppTaskStep]_vars

\* The first half of C30 by itself
C30_NotInitRefused == [][C30_NotInitStep]_vars

\* C31: task_delete on the idle task returns TaskDelIdle and task_suspend on it
\* returns TaskSuspendIdle, and neither changes the kernel's state; the idle task
\* is always Ready and linked in the ready list of CFG_PRIO_IDLE, whose bit is
\* set, so that the scheduler always finds a task in the highest occupied list.
C31_IdleStep ==
    /\ (ret'.op = "task_del" /\ ret'.obj = IdleTcb)
       => ret'.val = "TaskDelIdle" /\ UNCHANGED KernelVars
    /\ (ret'.op = "task_suspend" /\ ret'.obj = IdleTcb)
       => ret'.val = "TaskSuspendIdle" /\ UNCHANGED KernelVars

C31_IdleLinked ==
    /\ tcb[IdleTcb].task_state = "Ready"
    /\ tcb[IdleTcb].prio = CFG_PRIO_IDLE
    /\ IdleTcb \in RdyMembers(CFG_PRIO_IDLE)
    /\ PrioTable_is_set(prio_tbl, CFG_PRIO_IDLE)
    /\ rdy_list[PrioTable_get_highest(prio_tbl)].head # NULL

C31_IdleStays == [][C31_IdleStep]_vars /\ []C31_IdleLinked

\* C32: in the run of the producer and the consumer every post is consumed
\* before the next one: consumed <= produced <= consumed + 1 in every state, the
\* two counts are equal whenever the producer is Delayed and the consumer waits
\* for the semaphore, and every SEM.wait of the consumer returns Ok.
BothBlocked ==
    /\ tcb[PRODUCER_TCB].task_state = "Delayed"
    /\ tcb[CONSUMER_TCB].task_state = "Pend"

C32_ProducerConsumer ==
    /\ hist.consumed <= hist.produced
    /\ hist.produced <= hist.consumed + 1
    /\ BothBlocked => hist.produced = hist.consumed
    /\ (ret.op = "sem_pend" /\ ret.task = CONSUMER_TCB) => ret.val \in {"Ok", "none"}
    /\ hist.stage[CONSUMER_TCB] = "wait" => tcb[CONSUMER_TCB].pend_status = "Ok"

\* The second item has been consumed and both tasks are blocked again
C32_Witness ==
    /\ hist.produced = 2 /\ hist.consumed = 2
    /\ BothBlocked
    /\ cpu.tcb_cur = IdleTcb

\* C33: a call of task_suspend, task_delete, task_create, task_resume, sem.post,
\* mutex.post or sched_lock by a task returns with the caller in state Ready.
C33_Others ==
    {"task_suspend", "task_del", "task_create", "task_resume", "sem_post",
     "mutex_post", "sched_lock"}

C33_CallerStaysReady ==
    (ret'.task = Caller /\ Caller \in AppTasks /\ ret'.op \in C33_Others)
        => tcb'[Caller].task_state = "Ready"

C33_OnSelf ==
    /\ ret'.op \in {"task_suspend", "task_del"} /\ ret'.obj = Caller
    /\ tcb[Caller].prio # CFG_PRIO_IDLE

C33_Step ==
    (ret'.task = Caller /\ Caller \in AppTasks /\ ret'.op \in C33_Others
     /\ tcb[Caller].task_state = "Ready")
        => IF C33_OnSelf
           THEN tcb'[Caller].task_state = "Suspended"
           ELSE tcb'[Caller].task_state = "Ready"

C34_TickSeesLinked ==
    ret'.op = "tick_handler" => cpu.tcb_cur \in RdyMembers(tcb[cpu.tcb_cur].prio)

C34_ReadyLinked ==
    \A t \in created : tcb[t].task_state = "Ready" => t \in RdyMembers(tcb[t].prio)

C34_AtomicBlocking == [][C34_TickSeesLinked]_vars /\ []C34_ReadyLinked

\* C35: time_delay_resume(t) on a Delayed task leaves t Ready and linked in no
\* slot of the tick wheel, and a delay that t begins afterwards lasts its full
\* number of ticks: t is Delayed until the tick handler of the last of them.
C35_ResumeStep ==
    \A t \in AppTasks :
        (ret'.op = "time_dly_resume" /\ ret'.obj = t /\ tcb[t].task_state = "Delayed")
            => tcb'[t].task_state = "Ready" /\ ~InWheel(t)'

C35_LaterDelayFull ==
    \A t \in created :
        /\ tcb[t].task_state = "Ready" => ~InWheel(t)
        /\ hist.dly_due[t].st = "armed" => tcb[t].task_state = "Delayed"
        /\ hist.dly_due[t].st # "missed"

C35_ResumeUnlinks == [][C35_ResumeStep]_vars /\ []C35_LaterDelayFull

\* C36: when a task H blocks on a mutex M1 whose owner L1 is itself waiting for
\* a mutex M2 owned by another task L2, the pend gives L1 the prio of H if that
\* is higher than L1's, and leaves the prio of L2 as it was.
C36_PendStep ==
    \A m1, m2 \in Mutexes :
        LET l1 == mutex[m1].owner
            l2 == mutex[m2].owner
        IN (/\ ret'.op = "mutex_pend" /\ ret'.obj = m1 /\ ret'.val = "none"
            /\ l1 \notin {NULL, Caller}
            /\ l1 \in PendMembers(m2)
            /\ l2 \notin {NULL, l1})
           => /\ tcb'[l1].prio = Min({tcb[l1].prio, tcb[Caller].prio})
              /\ tcb'[l2].prio = tcb[l2].prio

C36_NoCascade == [][C36_PendStep]_vars

\* H has just blocked on M1; its owner L1 waits for M2 with the prio of H, and
\* the owner L2 of M2 has the prio it inherited from L1 before
C36_Witness ==
    /\ ret.op = "mutex_pend" /\ ret.obj = "M1" /\ ret.task = "A"
    /\ "A" \in PendMembers("M1")
    /\ mutex["M1"].owner = "B" /\ "B" \in PendMembers("M2")
    /\ mutex["M2"].owner = "C"
    /\ tcb["A"].prio = 1 /\ tcb["B"].prio = 1 /\ tcb["B"].base_prio = 2
    /\ tcb["C"].prio = 2 /\ tcb["C"].base_prio = 3

\* C37: whenever the kernel runs and no context switch is pending, prio_cur is
\* the prio field of the running task.  (A pended switch is taken before a
\* step ends, so none is pending in a state between two steps.)
C37_PrioCurIsRunningPrio ==
    (kf.running /\ cpu.tcb_cur # NULL)
        => cpu.prio_cur = tcb[cpu.tcb_cur].prio

\* C38: whenever the kernel runs and the running task is not inside a kernel
\* call, the running task is in state Ready and linked in the ready list of its
\* prio.
C38_RunningIsReady ==
    (kf.running /\ ~kf.panicked /\ cpu.tcb_cur # NULL /\ pc[cpu.tcb_cur] = AtRun)
        => /\ tcb[cpu.tcb_cur].task_state = "Ready"
           /\ cpu.tcb_cur \in RdyMembers(tcb[cpu.tcb_cur].prio)

\* C39: in every state, a semaphore with count > 0 has an empty pend list: no
\* task stays blocked while a token is available.
C39_TokenMeansNoWaiter ==
    \A o \in Sems : sem[o].count > 0 => sem[o].pend_list.head = NULL

\* C40: in every state, a mutex has no owner if and only if its nesting count
\* is 0, the count is at least 1 while it has an owner, and the owner is not
\* linked in the pend list of the mutex.
C40_MutexShape ==
    \A o \in Mutexes :
        /\ mutex[o].owner = NULL <=> mutex[o].nesting_ctr = 0
        /\ mutex[o].owner # NULL => mutex[o].nesting_ctr >= 1
        /\ mutex[o].owner # NULL => mutex[o].owner \notin PendMembers(o)

====
